---- MODULE Spec2Model ----
(***************************************************************************)
(* Model of the script execution / output streaming pipeline of            *)
(* backend/main.py (execute_script_stream) and of the single-slot result   *)
(* cache of backend/exec_env.py (ExecEnv).                                 *)
(*                                                                         *)
(* Text is a sequence of one-character strings.  Bytes read from a pipe    *)
(* are a sequence of byte tokens: an ASCII byte is written as its          *)
(* character, and the two bytes of the UTF-8 encoding of U+00E9 are the    *)
(* tokens "C3" and "A9".  A fixed message of the program (for example      *)
(* "Process exited with code 2") is a one-element sequence holding the     *)
(* message, so every event text has the same shape.                        *)
(***************************************************************************)
EXTENDS Integers, Sequences, FiniteSets, TLC

VARIABLES
    pc,               \* position of the request handler / stream task / generator
    runs,             \* number of run requests received so far
    req,              \* the ScriptExecution of the current request
    launch,           \* how the synchronous launch part of the current request ended
    script_path,      \* script_path of the current request
    files,            \* the temp files that exist under /tmp
    process,          \* the process spawned for the current request
    stdout_pipe,      \* bytes written to stdout and not yet read
    stderr_pipe,      \* bytes written to stderr and not yet read
    stdout_remainder, \* locals of stream_process_output
    stderr_remainder,
    yaml_started,
    yaml_buffer,
    text_buffer,
    output_queue,     \* asyncio.Queue of (event_type, data)
    produced,         \* history: every event put on output_queue by this execution
    exec_env,         \* ExecEnv._results
    cache0,           \* history: exec_env when the current request arrived
    hist,             \* history: what each finished execution yielded
    response,         \* what the HTTP layer got back from the handler
    delivered,        \* the frames event_generator has yielded
    disconnected,     \* request.is_disconnected()
    cmd,              \* the argv of the current request
    peer,             \* a second execute_script_stream request in progress
    running_processes, \* the registry of execute_fs_command
    fs_pc,            \* position of the execute_fs_command handler
    command_id,       \* command_id of the last execute_fs_command
    clock,            \* datetime.now() as read by execute_fs_command
    fs_response,      \* last answer of execute_fs_command
    cancel_response,  \* last answer of cancel_command
    scripts,          \* the rows of the scripts table of scripts.db
    next_id,          \* the next AUTOINCREMENT id of the scripts table
    save_response,    \* last answer of the save_script endpoint
    saved,            \* history: the names save_script was called with
    catalog_response, \* last answer of the get_script, delete_script and
                      \* rename_script endpoints
    script_args,      \* the rows of the script_args table of scripts.db
    args_response,    \* last answer of the get_script_args endpoint
    recorded,         \* history: the last usage recorded for each existing script
    written           \* the temp file and argv prefix last made from a (name, body)

\* the command registry and the answers of its two handlers
registry_vars == <<running_processes, fs_pc, command_id, clock, fs_response,
                   cancel_response>>

\* the script catalog and the answers of its handlers
\* the other catalog endpoints and the argument history
library_vars == <<catalog_response, script_args, args_response, recorded, written>>

catalog_vars == <<scripts, next_id, save_response, saved, library_vars>>

\* the state no step of a single script execution touches
outside == <<peer, registry_vars, catalog_vars>>

vars == <<pc, runs, req, launch, script_path, files, process, stdout_pipe,
          stderr_pipe, stdout_remainder, stderr_remainder, yaml_started,
          yaml_buffer, text_buffer, output_queue, produced, exec_env, cache0,
          hist, response, delivered, disconnected, cmd, outside>>

----------------------------------------------------------------------------
(* Bounds of the model *)

\* number of sequential run requests
MaxRuns == 2

\* bytes a pipe holds before the writer blocks
PipeCap == 12

\* ids the scripts table hands out
MaxIds == 3

\* number of execute_fs_command requests
MaxCommands == 2

\* pieces (characters or line terminators) of an input of the read loop
MaxUnits == 3

(* Program constants *)

\* process.stdout.read(1024) / process.stderr.read(1024)
ReadSize == 1024

----------------------------------------------------------------------------
(* Text helpers *)

Min(a, b) == IF a < b THEN a ELSE b

None == <<"<None>">>

NL == "\n"
SPACE == " "
CR == "\r"
FF == "\f"
BEL == "BEL"

\* the literal "--YAML--"
Marker == <<"-", "-", "Y", "A", "M", "L", "-", "-">>

\* the line boundaries str.splitlines knows (those of the modelled alphabet)
LineBreaks == {NL, CR, FF}

Tail2(s, n) == SubSeq(s, n + 1, Len(s))

\* index of the first element of s that lies in set S, 0 when there is none
FirstIn(s, S) ==
    IF \E i \in 1..Len(s) : s[i] \in S
    THEN CHOOSE i \in 1..Len(s) : s[i] \in S /\ \A j \in 1..(i - 1) : s[j] \notin S
    ELSE 0

\* str.splitlines(keepends=True): "\r\n" is one boundary
RECURSIVE splitlines(_)
splitlines(s) ==
    IF s = <<>> THEN <<>>
    ELSE LET i == FirstIn(s, LineBreaks) IN
         IF i = 0 THEN <<s>>
         ELSE LET j == IF s[i] = CR /\ i < Len(s) /\ s[i + 1] = NL THEN i + 1 ELSE i
              IN  <<SubSeq(s, 1, j)>> \o splitlines(Tail2(s, j))

\* line.endswith('\n')
EndsWithNL(line) == Len(line) > 0 /\ line[Len(line)] = NL

\* position of the first occurrence of the marker in line, 0 when absent
MarkerAt(line) ==
    LET hits == {i \in 1..Len(line) :
                    /\ i + Len(Marker) - 1 <= Len(line)
                    /\ SubSeq(line, i, i + Len(Marker) - 1) = Marker}
    IN  IF hits = {} THEN 0 ELSE CHOOSE i \in hits : \A j \in hits : i <= j

\* "--YAML--" in line
HasMarker(line) == MarkerAt(line) # 0

\* line.split("--YAML--", 1)[1]
AfterMarker(line) == Tail2(line, MarkerAt(line) + Len(Marker) - 1)

\* bytes.decode(): UnicodeDecodeError unless every lead byte is followed by
\* its continuation byte and every continuation byte follows a lead byte
DecodeOk(bs) ==
    \A i \in 1..Len(bs) :
        /\ bs[i] = "C3" => (i < Len(bs) /\ bs[i + 1] = "A9")
        /\ bs[i] = "A9" => (i > 1 /\ bs[i - 1] = "C3")

RECURSIVE decode(_)
decode(bs) ==
    IF bs = <<>> THEN <<>>
    ELSE IF bs[1] = "C3" THEN <<"e'">> \o decode(Tail2(bs, 2))
    ELSE <<bs[1]>> \o decode(Tail(bs))

RECURSIVE Concat(_)
Concat(ss) == IF ss = <<>> THEN <<>> ELSE ss[1] \o Concat(Tail(ss))

----------------------------------------------------------------------------
(* yaml.safe_load on the payload texts of the modelled scripts: the reader
   rejects a stream that holds a non-printable character (ReaderError);
   otherwise the document is its non-blank lines without their
   terminators, and an empty document loads as None (the empty tuple). *)

YamlOk(text) == \A i \in 1..Len(text) : text[i] # BEL

StripBreak(line) ==
    LET n == Len(line) IN
    IF n >= 2 /\ line[n - 1] = CR /\ line[n] = NL THEN SubSeq(line, 1, n - 2)
    ELSE IF n >= 1 /\ line[n] \in LineBreaks THEN SubSeq(line, 1, n - 1)
    ELSE line

safe_load(text) ==
    LET ls == splitlines(text)
    IN  SelectSeq([i \in 1..Len(ls) |-> StripBreak(ls[i])], LAMBDA l : l # <<>>)

----------------------------------------------------------------------------
(* The script catalog (database.get_script_by_name) and the requests *)

Script(name, ends_py, head, ref) ==
    [name |-> name, ends_py |-> ends_py, body_head |-> head, accepts_reference |-> ref]

\* the rows of the scripts table
db_scripts ==
    { Script("s1", FALSE, "echo", FALSE),
      Script("s2.py", TRUE, "import ", TRUE) }

\* database.get_script_by_name: <<row>>, or the empty tuple for None
get_script_by_name(name) ==
    IF \E s \in db_scripts : s.name = name
    THEN <<CHOOSE s \in db_scripts : s.name = name>>
    ELSE <<>>

\* is_python of execute_script_stream
is_python(s) ==
    \/ s.ends_py
    \/ s.body_head \in {"#!/usr/bin/env python", "#!/usr/bin/python", "import ", "from "}

\* "/tmp/script_<name>.sh", renamed to "....sh.py" for a Python script
ScriptPath(s) == <<"/tmp/script_", s.name, IF is_python(s) THEN ".sh.py" ELSE ".sh">>

\* the ScriptExecution payloads of the modelled requests
Requests ==
    { [name |-> "s1", args |-> None],
      [name |-> "s2.py", args |-> <<"x", SPACE, "y">>],
      [name |-> "nope", args |-> None] }

----------------------------------------------------------------------------
(* What a spawned script does: its writes, in order, and its exit code *)

Prog(writes, code) == [writes |-> writes, code |-> code]

Programs ==
    { \* text, marker line, payload line, exit 0
      Prog(<< <<"out", <<"a", NL>>>>, <<"out", Marker \o <<NL>>>>, <<"out", <<"k", NL>>>> >>, 0),
      \* text on both streams, exit 2, no marker
      Prog(<< <<"out", <<"a", NL>>>>, <<"err", <<"e", NL>>>> >>, 2),
      \* unterminated text, exit 0
      Prog(<< <<"out", <<"a">>>> >>, 0),
      \* text, marker line whose payload does not parse, exit 2
      Prog(<< <<"out", <<"a", NL>>>>, <<"out", Marker \o <<BEL, NL>>>> >>, 2),
      \* marker on an unterminated last line, unterminated stderr, exit 2
      Prog(<< <<"out", Marker \o <<"k">>>>, <<"err", <<"e">>>> >>, 2),
      \* a two-byte character, exit 2
      Prog(<< <<"out", <<"C3", "A9", NL>>>> >>, 2),
      \* no output at all
      Prog(<<>>, 0) }

NoProcess == [state |-> "none", prog |-> Prog(<<>>, 0), wpos |-> 0,
              returncode |-> 0, signalled |-> FALSE, signals |-> <<>>]

\* exit status of a process ended by SIGTERM
SIGTERM_CODE == -15

----------------------------------------------------------------------------
(* Events *)

Event(type, data) == <<type, data>>

\* f"Process exited with code {return_code}"
ExitMessage(code) ==
    CASE code = 2 -> <<"Process exited with code 2">>
      [] code = 127 -> <<"Process exited with code 127">>
      [] code = SIGTERM_CODE -> <<"Process exited with code -15">>
      [] OTHER -> <<"Process exited with code 0">>

\* f"Error: {str(e)}" for the UnicodeDecodeError of bytes.decode()
DecodeErrorMessage == <<"Error: 'utf-8' codec can't decode byte">>

\* f"Error: {str(e)}" for the ProcessLookupError of terminate() on a process
\* whose transport has already finished
LookupErrorMessage == <<"Error: ">>

Messages == {ExitMessage(2), ExitMessage(127), ExitMessage(SIGTERM_CODE), ExitMessage(0),
             DecodeErrorMessage, LookupErrorMessage}

\* mutant of replace_newlines: the text is left as it is
replace_newlines_none(data) == data

\* f"event: {event_type}\ndata: {formatted_data}\n\n" with
\* formatted_data = data.replace('\n', '\\n')
RECURSIVE replace_newlines(_)
replace_newlines(data) ==
    IF data = <<>> THEN <<>>
    ELSE (IF data[1] = NL THEN <<"\\", "n">> ELSE <<data[1]>>) \o replace_newlines(Tail(data))

Frame(ev) == [event |-> ev[1], data |-> replace_newlines(ev[2])]

DoneFrame == [event |-> "done", data |-> <<"Script execution completed">>]

\* the characters a frame is yielded as: f"event: {event_type}\ndata:
\* {formatted_data}\n\n" (lines 898 and 914)
sse(frame) ==
    <<"event: ", frame.event, NL, "data: ">> \o frame.data \o <<NL, NL>>

----------------------------------------------------------------------------
(* stream_process_output: one read of a pipe *)

\* combined.splitlines(keepends=True) and the pop of an unterminated last line:
\* the complete lines of remainder + decoded
CompleteLines(remainder, decoded) ==
    LET lines == splitlines(remainder \o decoded) IN
    IF lines # <<>> /\ ~EndsWithNL(lines[Len(lines)])
    THEN SubSeq(lines, 1, Len(lines) - 1)
    ELSE lines

\* the new remainder
NewRemainder(remainder, decoded) ==
    LET lines == splitlines(remainder \o decoded) IN
    IF lines # <<>> /\ ~EndsWithNL(lines[Len(lines)])
    THEN lines[Len(lines)]
    ELSE <<>>

\* the locals the stdout line loop changes
Demux(ys, yb, tb, evs) == [yaml_started |-> ys, yaml_buffer |-> yb, text_buffer |-> tb, events |-> evs]

\* mutant of RouteLine: the marker is looked for in payload lines as well
RouteLine_rescan(d, line) ==
    IF HasMarker(line)
    THEN [d EXCEPT !.yaml_started = TRUE, !.yaml_buffer = @ \o AfterMarker(line)]
    ELSE IF d.yaml_started
    THEN [d EXCEPT !.yaml_buffer = @ \o line]
    ELSE [d EXCEPT !.events = Append(@, Event("output", line)), !.text_buffer = @ \o line]

\* one stdout line: payload, marker line, or output event
RouteLine(d, line) ==
    IF d.yaml_started
    THEN [d EXCEPT !.yaml_buffer = @ \o line]
    ELSE IF HasMarker(line)
    THEN [d EXCEPT !.yaml_started = TRUE, !.yaml_buffer = @ \o AfterMarker(line)]
    ELSE [d EXCEPT !.events = Append(@, Event("output", line)), !.text_buffer = @ \o line]

\* for line in lines (stdout)
RECURSIVE RouteLines(_, _)
RouteLines(d, lines) ==
    IF lines = <<>> THEN d ELSE RouteLines(RouteLine(d, lines[1]), Tail(lines))

\* mutant of ErrorEvents: a line that contains the marker is not emitted
ErrorEvents_skip_marker(lines) ==
    LET NoMarker(line) == ~HasMarker(line)
        kept == SelectSeq(lines, NoMarker)
    IN  [i \in 1..Len(kept) |-> Event("error", kept[i])]

\* for line in lines (stderr): every line is an error event
ErrorEvents(lines) == [i \in 1..Len(lines) |-> Event("error", lines[i])]

\* mutant of put: the batch goes to the front of the queue
put_front(queue, evs) == evs \o queue

\* output_queue.put for a batch of events, in order
put(queue, evs) == queue \o evs

\* mutant of FinalFlush: the stdout remainder is never added to the payload
FinalFlush_no_payload(d, out_rem, err_rem, return_code) ==
    LET d1 == IF out_rem # <<>> /\ ~d.yaml_started
              THEN [d EXCEPT !.events = Append(@, Event("output", out_rem)),
                             !.text_buffer = @ \o out_rem]
              ELSE d
        d2 == IF err_rem # <<>>
              THEN [d1 EXCEPT !.events = Append(@, Event("error", err_rem))]
              ELSE d1
    IN  IF return_code # 0
        THEN [d2 EXCEPT !.events = Append(@, Event("error", ExitMessage(return_code)))]
        ELSE d2

\* mutant of FinalFlush: a remainder is flushed whether or not it is empty
FinalFlush_always(d, out_rem, err_rem, return_code) ==
    LET d1 == IF d.yaml_started
              THEN [d EXCEPT !.yaml_buffer = @ \o out_rem]
              ELSE [d EXCEPT !.events = Append(@, Event("output", out_rem)),
                             !.text_buffer = @ \o out_rem]
        d2 == [d1 EXCEPT !.events = Append(@, Event("error", err_rem))]
    IN  IF return_code # 0
        THEN [d2 EXCEPT !.events = Append(@, Event("error", ExitMessage(return_code)))]
        ELSE d2

\* the flush of the remainders and the exit code event once both pipes are at EOF
FinalFlush(d, out_rem, err_rem, return_code) ==
    LET d1 == IF out_rem # <<>>
              THEN IF d.yaml_started
                   THEN [d EXCEPT !.yaml_buffer = @ \o out_rem]
                   ELSE [d EXCEPT !.events = Append(@, Event("output", out_rem)),
                                  !.text_buffer = @ \o out_rem]
              ELSE d
        d2 == IF err_rem # <<>>
              THEN [d1 EXCEPT !.events = Append(@, Event("error", err_rem))]
              ELSE d1
    IN  IF return_code # 0
        THEN [d2 EXCEPT !.events = Append(@, Event("error", ExitMessage(return_code)))]
        ELSE d2

----------------------------------------------------------------------------
(* ExecEnv *)

ExecResult(type, command, json_result, text_result, args) ==
    [type |-> type, command |-> command, args |-> args,
     json_result |-> json_result, text_result |-> text_result]

\* mutant of add_result: the output text of the result already cached is kept
add_result_keep_text(results, result) ==
    IF results = <<>> THEN <<result>>
    ELSE <<[result EXCEPT !.text_result = results[1].text_result]>>

\* ExecEnv.add_result: self._results = [result]
add_result(results, result) == <<result>>

\* the empty object {} (no payload text loads to it: a loaded document is a
\* sequence of lines of one-character strings)
EmptyObject == << <<"{}">> >>

\* mutant of get_json: the cache content is ignored
get_json_empty(results) == EmptyObject

\* ExecEnv.get_json
get_json(results) ==
    IF Len(results) > 0 THEN results[1].json_result ELSE EmptyObject

----------------------------------------------------------------------------
(* The argv of the script process (lines 742-754) *)

\* shlex.split on text without quotes or escapes: the maximal runs of
\* characters other than white space
RECURSIVE shlex_split(_)
shlex_split(text) ==
    IF text = <<>> THEN <<>>
    ELSE IF text[1] = SPACE THEN shlex_split(Tail(text))
    ELSE LET i == FirstIn(text, {SPACE}) IN
         IF i = 0 THEN <<text>>
         ELSE <<SubSeq(text, 1, i - 1)>> \o shlex_split(Tail2(text, i))

\* the lines of a loaded document joined as the one string they load to
RECURSIVE JoinLines(_)
JoinLines(ls) ==
    IF ls = <<>> THEN <<>>
    ELSE IF Len(ls) = 1 THEN ls[1]
    ELSE ls[1] \o <<SPACE>> \o JoinLines(Tail(ls))

\* json.dumps of one character of a string (ensure_ascii)
JsonChar(c) ==
    CASE c = "e'" -> <<"\\", "u", "0", "0", "e", "9">>
      [] c = "\"" -> <<"\\", "\"">>
      [] c = "\\" -> <<"\\", "\\">>
      [] OTHER -> <<c>>

\* json.dumps: {} for the empty object, null for None, else a quoted string
json_dumps(value) ==
    IF value = EmptyObject THEN <<"{", "}">>
    ELSE IF value = <<>> THEN <<"n", "u", "l", "l">>
    ELSE LET text == JoinLines(value) IN
         <<"\"">> \o Concat([i \in 1..Len(text) |-> JsonChar(text[i])]) \o <<"\"">>

\* the ASCII characters of the modelled JSON texts and their byte values in
\* lowercase hexadecimal
HexTable ==
    { <<"\"", <<"2", "2">>>>, <<SPACE, <<"2", "0">>>>, <<"{", <<"7", "b">>>>,
      <<"}", <<"7", "d">>>>, <<"\\", <<"5", "c">>>>, <<"0", <<"3", "0">>>>,
      <<"9", <<"3", "9">>>>, <<"a", <<"6", "1">>>>, <<"e", <<"6", "5">>>>,
      <<"k", <<"6", "b">>>>, <<"l", <<"6", "c">>>>, <<"n", <<"6", "e">>>>,
      <<"p", <<"7", "0">>>>,
      <<"u", <<"7", "5">>>> }

\* str.encode("utf-8").hex() of ASCII text: two digits for each character
hex(text) ==
    Concat([i \in 1..Len(text) |->
              (CHOOSE row \in HexTable : row[1] = text[i])[2]])

\* mutant of BuildCmd: the reference is always the empty object
BuildCmd_empty_reference(r, s, results) ==
    (IF is_python(s) THEN << <<"/usr/bin/python3">>, ScriptPath(s) >>
     ELSE << <<"/bin/bash">>, ScriptPath(s) >>)
    \o (IF r.args # None /\ r.args # <<>> THEN shlex_split(r.args) ELSE <<>>)
    \o (IF s.accepts_reference
        THEN << <<"--reference">>, hex(json_dumps(EmptyObject)) >>
        ELSE <<>>)

\* lines 742-754
BuildCmd(r, s, results) ==
    (IF is_python(s) THEN << <<"/usr/bin/python3">>, ScriptPath(s) >>
     ELSE << <<"/bin/bash">>, ScriptPath(s) >>)
    \o (IF r.args # None /\ r.args # <<>> THEN shlex_split(r.args) ELSE <<>>)
    \o (IF s.accepts_reference
        THEN << <<"--reference">>, hex(json_dumps(get_json(results))) >>
        ELSE <<>>)

----------------------------------------------------------------------------
(* Initial state: the server has started and no request has arrived *)

NoRequest == [name |-> "", args |-> None]

\* what a finished execution yielded: no payload, or the result it assembled
NoYield == [valid |-> FALSE, result |-> <<>>]

\* no second request is in progress
NoPeer == [pc |-> "none", req |-> NoRequest, script_path |-> <<>>,
           text_buffer |-> <<>>, yaml_result |-> None, concurrent |-> FALSE]

PeerInit == peer = NoPeer

\* running_processes: Dict[str, subprocess.Popen] = {}
EmptyDict == [id \in {} |-> NoProcess]

\* no execute_fs_command and no cancel_command has been answered yet
NoResponse == [status |-> 0]

RegistryInit ==
    /\ running_processes = EmptyDict
    /\ fs_pc = "idle"
    /\ command_id = <<>>
    /\ clock = 0
    /\ fs_response = NoResponse
    /\ cancel_response = NoResponse

\* scripts.db after init_db: the scripts table exists and is empty
CatalogInit ==
    /\ scripts = {}
    /\ next_id = 1
    /\ save_response = NoResponse
    /\ saved = {}
    /\ catalog_response = NoResponse
    /\ script_args = {}
    /\ args_response = NoResponse
    /\ recorded = {}
    /\ written = NoResponse

Init ==
    /\ pc = "idle"
    /\ runs = 0
    /\ req = NoRequest
    /\ launch = "none"
    /\ script_path = <<>>
    /\ files = {}
    /\ process = NoProcess
    /\ stdout_pipe = <<>>
    /\ stderr_pipe = <<>>
    /\ stdout_remainder = <<>>
    /\ stderr_remainder = <<>>
    /\ yaml_started = FALSE
    /\ yaml_buffer = <<>>
    /\ text_buffer = <<>>
    /\ output_queue = <<>>
    /\ produced = <<>>
    /\ exec_env = <<>>
    /\ cache0 = <<>>
    /\ hist = <<>>
    /\ response = "none"
    /\ delivered = <<>>
    /\ disconnected = FALSE
    /\ cmd = <<>>
    /\ PeerInit
    /\ RegistryInit
    /\ CatalogInit

----------------------------------------------------------------------------
(* execute_script_stream up to the spawn: lines 668-766 run without a
   suspension point, so they are one step.  database.save_script_args
   (line 674) writes only the argument history, which is not part of this
   state. *)

\* a new request arrives: fresh locals, queue and connection
NewRequest(r) ==
    /\ pc \in {"idle", "closed"}
    /\ runs < MaxRuns
    /\ runs' = runs + 1
    /\ req' = r
    /\ cache0' = exec_env
    /\ process' = NoProcess
    /\ stdout_pipe' = <<>>
    /\ stderr_pipe' = <<>>
    /\ stdout_remainder' = <<>>
    /\ stderr_remainder' = <<>>
    /\ yaml_started' = FALSE
    /\ yaml_buffer' = <<>>
    /\ text_buffer' = <<>>
    /\ output_queue' = <<>>
    /\ produced' = <<>>
    /\ delivered' = <<>>
    /\ disconnected' = FALSE
    /\ UNCHANGED exec_env

\* mutant of RaiseHTTP500: the error is swallowed and the stream is returned
SwallowAndStream ==
    /\ response' = "stream"
    /\ pc' = "gen"

\* an exception reaches the outer handler (lines 936-938): the request is
\* answered with HTTPException(500) and no StreamingResponse is returned
RaiseHTTP500 ==
    /\ response' = "http_500"
    /\ pc' = "closed"

\* database.get_script_by_name finds nothing: HTTPException(404), re-raised as 500
RequestNotFound(r) ==
    /\ NewRequest(r)
    /\ get_script_by_name(r.name) = <<>>
    /\ launch' = "not_found"
    /\ script_path' = <<>>
    /\ RaiseHTTP500
    /\ hist' = Append(hist, NoYield)
    /\ UNCHANGED files
    /\ cmd' = <<>>
    /\ UNCHANGED outside

ShPath(s) == <<"/tmp/script_", s.name, ".sh">>

\* the files after the `with open(script_path, 'w')` block has run to its end
FilesWritten(fs, s) == (fs \ {ShPath(s)}) \cup {ScriptPath(s)}

\* the file cannot be opened, the write fails after the open, chmod fails, or
\* the file is not executable afterwards: HTTPException(500)
RequestFileError(r, fault) ==
    /\ NewRequest(r)
    /\ get_script_by_name(r.name) # <<>>
    /\ LET s == get_script_by_name(r.name)[1] IN
       /\ script_path' = IF fault \in {"open_failed", "write_failed"} THEN ShPath(s) ELSE ScriptPath(s)
       /\ files' = CASE fault = "open_failed" -> files
                     [] fault = "write_failed" -> files \cup {ShPath(s)}
                     [] OTHER -> FilesWritten(files, s)
    /\ launch' = fault
    /\ RaiseHTTP500
    /\ hist' = Append(hist, NoYield)
    /\ cmd' = <<>>
    /\ UNCHANGED outside

FileFaults == {"open_failed", "write_failed", "chmod_failed", "not_executable"}

\* the file is written and executable; the handler awaits create_subprocess_exec
RequestLaunch(r) ==
    /\ NewRequest(r)
    /\ get_script_by_name(r.name) # <<>>
    /\ LET s == get_script_by_name(r.name)[1] IN
       /\ script_path' = ScriptPath(s)
       /\ files' = FilesWritten(files, s)
    /\ launch' = "pending"
    /\ response' = "none"
    /\ pc' = "spawn"
    /\ UNCHANGED hist
    /\ cmd' = BuildCmd(r, get_script_by_name(r.name)[1], exec_env)
    /\ UNCHANGED outside

\* create_subprocess_exec returns a process running program p: the
\* interpreter has found the script file
SpawnOk(p) ==
    /\ pc = "spawn"
    /\ script_path \in files
    /\ process' = [state |-> "running", prog |-> p, wpos |-> 0,
                   returncode |-> 0, signalled |-> FALSE, signals |-> <<>>]
    /\ launch' = "spawned"
    /\ pc' = "poll"
    /\ UNCHANGED <<runs, req, script_path, files, stdout_pipe, stderr_pipe,
                   stdout_remainder, stderr_remainder, yaml_started, yaml_buffer,
                   text_buffer, output_queue, produced, exec_env, cache0, hist,
                   response, delivered, disconnected>>
    /\ UNCHANGED <<cmd, outside>>

\* create_subprocess_exec raises (missing interpreter or working directory)
SpawnFails ==
    /\ pc = "spawn"
    /\ launch' = "spawn_failed"
    /\ RaiseHTTP500
    /\ hist' = Append(hist, NoYield)
    /\ UNCHANGED <<runs, req, script_path, files, process, stdout_pipe, stderr_pipe,
                   stdout_remainder, stderr_remainder, yaml_started, yaml_buffer,
                   text_buffer, output_queue, produced, exec_env, cache0,
                   delivered, disconnected>>
    /\ UNCHANGED <<cmd, outside>>

----------------------------------------------------------------------------
(* stream_process_output: the task the handler awaits at line 873.  Each
   action runs from one suspension point to the next. *)

\* the finally block: os.remove(script_path)
remove(fs, path) == fs \ {path}

\* the loop is left (break or exception): finally, then the return of
\* (text_buffer, yaml_buffer) to the awaiting handler
LeaveLoop ==
    /\ files' = remove(files, script_path)
    /\ pc' = "assemble"

\* a signal the server sends: to one process id (Process.terminate, os.kill)
\* or to a process group (os.killpg)
Signal(sig, target) == [sig |-> sig, target |-> target]

\* process.terminate(): SIGTERM to the process id alone; the process was
\* spawned at lines 761-766 without a session or group of its own
terminate(proc) ==
    [proc EXCEPT !.signalled = TRUE,
                 !.signals = Append(@, Signal("SIGTERM", "pid"))]

\* line 783: the consumer has gone: terminate and break
PollDisconnected ==
    /\ pc = "poll"
    /\ disconnected
    /\ process.state = "running"
    /\ process' = terminate(process)
    /\ LeaveLoop
    /\ UNCHANGED <<runs, req, launch, script_path, stdout_pipe, stderr_pipe,
                   stdout_remainder, stderr_remainder, yaml_started, yaml_buffer,
                   text_buffer, output_queue, produced, exec_env, cache0, hist,
                   response, delivered, disconnected>>
    /\ UNCHANGED <<cmd, outside>>

\* line 783 when the process has already exited: the transport has either kept
\* the process (terminate is a no-op) or dropped it (terminate raises
\* ProcessLookupError, reported by the except clause)
PollDisconnectedExited(raises) ==
    /\ pc = "poll"
    /\ disconnected
    /\ process.state = "exited"
    /\ IF raises
       THEN /\ output_queue' = put(output_queue, <<Event("error", LookupErrorMessage)>>)
            /\ produced' = produced \o <<Event("error", LookupErrorMessage)>>
       ELSE UNCHANGED <<output_queue, produced>>
    /\ LeaveLoop
    /\ UNCHANGED <<runs, req, launch, script_path, process, stdout_pipe, stderr_pipe,
                   stdout_remainder, stderr_remainder, yaml_started, yaml_buffer,
                   text_buffer, exec_env, cache0, hist, response, delivered,
                   disconnected>>
    /\ UNCHANGED <<cmd, outside>>

\* line 783: still connected: go on to the stdout read
PollConnected ==
    /\ pc = "poll"
    /\ ~disconnected
    /\ pc' = "read_out"
    /\ UNCHANGED <<runs, req, launch, script_path, files, process, stdout_pipe,
                   stderr_pipe, stdout_remainder, stderr_remainder, yaml_started,
                   yaml_buffer, text_buffer, output_queue, produced, exec_env,
                   cache0, hist, response, delivered, disconnected>>
    /\ UNCHANGED <<cmd, outside>>

\* the except clause: the error becomes an event, then finally
StreamException(msg) ==
    /\ output_queue' = put(output_queue, <<Event("error", msg)>>)
    /\ produced' = produced \o <<Event("error", msg)>>
    /\ LeaveLoop

\* lines 788-809: read(1024) returns the first k buffered bytes of stdout
ReadStdout(k) ==
    /\ pc = "read_out"
    /\ k \in 1..Min(Len(stdout_pipe), ReadSize)
    /\ stdout_pipe' = Tail2(stdout_pipe, k)
    /\ LET stdout_data == SubSeq(stdout_pipe, 1, k) IN
       IF ~DecodeOk(stdout_data)
       THEN /\ StreamException(DecodeErrorMessage)
            /\ UNCHANGED <<stdout_remainder, yaml_started, yaml_buffer, text_buffer>>
       ELSE LET decoded == decode(stdout_data)
                d == RouteLines(Demux(yaml_started, yaml_buffer, text_buffer, <<>>),
                                CompleteLines(stdout_remainder, decoded))
            IN  /\ stdout_remainder' = NewRemainder(stdout_remainder, decoded)
                /\ yaml_started' = d.yaml_started
                /\ yaml_buffer' = d.yaml_buffer
                /\ text_buffer' = d.text_buffer
                /\ output_queue' = put(output_queue, d.events)
                /\ produced' = produced \o d.events
                /\ pc' = "read_err"
                /\ UNCHANGED files
    /\ UNCHANGED <<runs, req, launch, script_path, process, stderr_pipe,
                   stderr_remainder, exec_env, cache0, hist, response, delivered,
                   disconnected>>
    /\ UNCHANGED <<cmd, outside>>

\* line 788 at end of input: read returns b"" at once
ReadStdoutEOF ==
    /\ pc = "read_out"
    /\ stdout_pipe = <<>>
    /\ process.state = "exited"
    /\ pc' = "read_err"
    /\ UNCHANGED <<runs, req, launch, script_path, files, process, stdout_pipe,
                   stderr_pipe, stdout_remainder, stderr_remainder, yaml_started,
                   yaml_buffer, text_buffer, output_queue, produced, exec_env,
                   cache0, hist, response, delivered, disconnected>>
    /\ UNCHANGED <<cmd, outside>>

\* process.stdout.at_eof() and process.stderr.at_eof(), given what is left
\* of stderr after this cycle's read
BothAtEOF(err_left) ==
    process.state = "exited" /\ stdout_pipe = <<>> /\ err_left = <<>>

\* lines 826-847 after the stderr read of a cycle that queued evs: at EOF of
\* both pipes flush, report the exit code and leave; otherwise sleep and poll
EndOfCycle(evs, err_rem, err_left) ==
    IF BothAtEOF(err_left)
    THEN LET d == FinalFlush(Demux(yaml_started, yaml_buffer, text_buffer, evs),
                             stdout_remainder, err_rem, process.returncode)
         IN  /\ yaml_buffer' = d.yaml_buffer
             /\ text_buffer' = d.text_buffer
             /\ output_queue' = put(output_queue, d.events)
             /\ produced' = produced \o d.events
             /\ LeaveLoop
    ELSE /\ output_queue' = put(output_queue, evs)
         /\ produced' = produced \o evs
         /\ pc' = "poll"
         /\ UNCHANGED <<yaml_buffer, text_buffer, files>>

\* lines 811-847: read(1024) returns the first k buffered bytes of stderr
ReadStderr(k) ==
    /\ pc = "read_err"
    /\ k \in 1..Min(Len(stderr_pipe), ReadSize)
    /\ stderr_pipe' = Tail2(stderr_pipe, k)
    /\ LET stderr_data == SubSeq(stderr_pipe, 1, k) IN
       IF ~DecodeOk(stderr_data)
       THEN /\ StreamException(DecodeErrorMessage)
            /\ UNCHANGED <<stderr_remainder, yaml_buffer, text_buffer>>
       ELSE LET decoded == decode(stderr_data)
                rem == NewRemainder(stderr_remainder, decoded)
            IN  /\ stderr_remainder' = rem
                /\ EndOfCycle(ErrorEvents(CompleteLines(stderr_remainder, decoded)),
                              rem, Tail2(stderr_pipe, k))
    /\ UNCHANGED <<runs, req, launch, script_path, process, stdout_pipe,
                   stdout_remainder, yaml_started, exec_env, cache0, hist,
                   response, delivered, disconnected>>
    /\ UNCHANGED <<cmd, outside>>

\* line 811 at end of input, then lines 826-847
ReadStderrEOF ==
    /\ pc = "read_err"
    /\ stderr_pipe = <<>>
    /\ process.state = "exited"
    /\ EndOfCycle(<<>>, stderr_remainder, stderr_pipe)
    /\ UNCHANGED <<runs, req, launch, script_path, process, stdout_pipe, stderr_pipe,
                   stdout_remainder, stderr_remainder, yaml_started, exec_env,
                   cache0, hist, response, delivered, disconnected>>
    /\ UNCHANGED <<cmd, outside>>

----------------------------------------------------------------------------
(* execute_script_stream after the task has returned: lines 873-882 and the
   return of the StreamingResponse *)

\* mutant of yaml_result: the payload buffer is returned even without a marker
yaml_result_always == yaml_buffer

\* the (text_result, yaml_result) the task returns: yaml_result is the payload
\* text when the marker was seen, else None
yaml_result == IF yaml_started THEN yaml_buffer ELSE None

\* mutant of command_result: the payload text is stored as the output text
command_result_payload_text ==
    ExecResult("json", req.name, safe_load(yaml_buffer), yaml_buffer, req.args)

\* the ExecResult built at lines 875-881
command_result ==
    ExecResult("json", req.name, safe_load(yaml_buffer), text_buffer, req.args)

\* lines 874-882, then line 927; yaml.safe_load raising reaches the outer handler
Assemble ==
    /\ pc = "assemble"
    /\ IF yaml_result # None
       THEN IF YamlOk(yaml_result)
            THEN /\ exec_env' = add_result(exec_env, command_result)
                 /\ response' = "stream"
                 /\ pc' = "gen"
            ELSE /\ RaiseHTTP500
                 /\ UNCHANGED exec_env
       ELSE /\ response' = "stream"
            /\ pc' = "gen"
            /\ UNCHANGED exec_env
    /\ hist' = Append(hist,
                 IF yaml_started /\ YamlOk(yaml_buffer)
                 THEN [valid |-> TRUE,
                       result |-> <<req.name, text_buffer, safe_load(yaml_buffer), req.args>>]
                 ELSE NoYield)
    /\ UNCHANGED <<runs, req, launch, script_path, files, process, stdout_pipe,
                   stderr_pipe, stdout_remainder, stderr_remainder, yaml_started,
                   yaml_buffer, text_buffer, output_queue, produced, cache0,
                   delivered, disconnected>>
    /\ UNCHANGED <<cmd, outside>>

----------------------------------------------------------------------------
(* event_generator: it starts once the StreamingResponse has been returned,
   so stream_task.done() holds throughout *)

\* mutant of get: the newest event is returned
get_newest(queue) == queue[Len(queue)]

\* output_queue.get(): the oldest event
get(queue) == Head(queue)

\* line 887: the consumer has gone: break, then the final event
GenDisconnected ==
    /\ pc = "gen"
    /\ disconnected
    /\ delivered' = Append(delivered, DoneFrame)
    /\ pc' = "closed"
    /\ UNCHANGED <<runs, req, launch, script_path, files, process, stdout_pipe,
                   stderr_pipe, stdout_remainder, stderr_remainder, yaml_started,
                   yaml_buffer, text_buffer, output_queue, produced, exec_env,
                   cache0, hist, response, disconnected>>
    /\ UNCHANGED <<cmd, outside>>

\* lines 893-901: an event is taken from the queue and yielded as a frame
GenDeliver ==
    /\ pc = "gen"
    /\ ~disconnected
    /\ output_queue # <<>>
    /\ delivered' = Append(delivered, Frame(get(output_queue)))
    /\ output_queue' = Tail(output_queue)
    /\ UNCHANGED <<pc, runs, req, launch, script_path, files, process, stdout_pipe,
                   stderr_pipe, stdout_remainder, stderr_remainder, yaml_started,
                   yaml_buffer, text_buffer, produced, exec_env, cache0, hist,
                   response, disconnected>>
    /\ UNCHANGED <<cmd, outside>>

\* lines 902-914: the get times out on an empty queue with the task done:
\* break, then the final event
GenDone ==
    /\ pc = "gen"
    /\ ~disconnected
    /\ output_queue = <<>>
    /\ delivered' = Append(delivered, DoneFrame)
    /\ pc' = "closed"
    /\ UNCHANGED <<runs, req, launch, script_path, files, process, stdout_pipe,
                   stderr_pipe, stdout_remainder, stderr_remainder, yaml_started,
                   yaml_buffer, text_buffer, output_queue, produced, exec_env,
                   cache0, hist, response, disconnected>>
    /\ UNCHANGED <<cmd, outside>>

----------------------------------------------------------------------------
(* The environment: the consumer and the script process *)

InFlight == pc \in {"spawn", "poll", "read_out", "read_err", "assemble", "gen"}

\* the consumer closes the connection while the request is in progress
Disconnect ==
    /\ InFlight
    /\ ~disconnected
    /\ disconnected' = TRUE
    /\ UNCHANGED <<pc, runs, req, launch, script_path, files, process, stdout_pipe,
                   stderr_pipe, stdout_remainder, stderr_remainder, yaml_started,
                   yaml_buffer, text_buffer, output_queue, produced, exec_env,
                   cache0, hist, response, delivered>>
    /\ UNCHANGED <<cmd, outside>>

\* the script performs its next write, if the pipe has room for it
ProcWrite ==
    /\ process.state = "running"
    /\ process.wpos < Len(process.prog.writes)
    /\ LET w == process.prog.writes[process.wpos + 1] IN
       IF w[1] = "out"
       THEN /\ Len(stdout_pipe) + Len(w[2]) <= PipeCap
            /\ stdout_pipe' = stdout_pipe \o w[2]
            /\ UNCHANGED stderr_pipe
       ELSE /\ Len(stderr_pipe) + Len(w[2]) <= PipeCap
            /\ stderr_pipe' = stderr_pipe \o w[2]
            /\ UNCHANGED stdout_pipe
    /\ process' = [process EXCEPT !.wpos = @ + 1]
    /\ UNCHANGED <<pc, runs, req, launch, script_path, files, stdout_remainder,
                   stderr_remainder, yaml_started, yaml_buffer, text_buffer,
                   output_queue, produced, exec_env, cache0, hist, response,
                   delivered, disconnected>>
    /\ UNCHANGED <<cmd, outside>>

\* the script has written everything and exits with its code; both pipes close
ProcExit ==
    /\ process.state = "running"
    /\ process.wpos = Len(process.prog.writes)
    /\ process' = [process EXCEPT !.state = "exited", !.returncode = process.prog.code]
    /\ UNCHANGED <<pc, runs, req, launch, script_path, files, stdout_pipe, stderr_pipe,
                   stdout_remainder, stderr_remainder, yaml_started, yaml_buffer,
                   text_buffer, output_queue, produced, exec_env, cache0, hist,
                   response, delivered, disconnected>>
    /\ UNCHANGED <<cmd, outside>>

\* the script dies of the SIGTERM it was sent
ProcTerminated ==
    /\ process.state = "running"
    /\ process.signalled
    /\ process' = [process EXCEPT !.state = "exited", !.returncode = SIGTERM_CODE]
    /\ UNCHANGED <<pc, runs, req, launch, script_path, files, stdout_pipe, stderr_pipe,
                   stdout_remainder, stderr_remainder, yaml_started, yaml_buffer,
                   text_buffer, output_queue, produced, exec_env, cache0, hist,
                   response, delivered, disconnected>>
    /\ UNCHANGED <<cmd, outside>>

----------------------------------------------------------------------------
(* execute_fs_command and cancel_command (lines 236-503).  execute_fs_command
   is a coroutine that never suspends: subprocess.Popen and
   process.communicate() (line 300) block the thread of the event loop, so
   no other handler of the server runs between the registration of the
   process (line 296) and its removal (lines 455-458). *)

\* request.command of the modelled requests
FsCommands == {"df", "du"}

\* what the commands may do: exit code and whether stderr has text
FsOutcomes == {0, 1}

\* the event loop is not inside a blocking call
LoopFree == fs_pc = "idle"

\* line 239: an empty command is refused
FsCommandRejected ==
    /\ LoopFree
    /\ fs_response' = [status |-> 400]
    /\ UNCHANGED <<running_processes, fs_pc, command_id, clock, cancel_response>>
    /\ UNCHANGED <<pc, runs, req, launch, script_path, files, process, stdout_pipe,
                   stderr_pipe, stdout_remainder, stderr_remainder, yaml_started,
                   yaml_buffer, text_buffer, output_queue, produced, exec_env,
                   cache0, hist, response, delivered, disconnected, cmd, peer, catalog_vars>>

\* d with key k bound to v
DictPut(d, k, v) == [x \in DOMAIN d \cup {k} |-> IF x = k THEN v ELSE d[x]]

\* del d[k]
DictDel(d, k) == [x \in DOMAIN d \ {k} |-> d[x]]

\* lines 243-296: the id is made of the command and the time, the process is
\* started in a group of its own and stored; the handler blocks in communicate
FsCommandStart(c, code) ==
    /\ LoopFree
    /\ clock < MaxCommands
    /\ clock' = clock + 1
    /\ command_id' = <<c, clock + 1>>
    /\ running_processes' =
           DictPut(running_processes, <<c, clock + 1>>,
                   [state |-> "running", prog |-> Prog(<<>>, code), wpos |-> 0,
                    returncode |-> 0, signalled |-> FALSE, signals |-> <<>>])
    /\ fs_pc' = "communicate"
    /\ UNCHANGED <<fs_response, cancel_response>>
    /\ UNCHANGED <<pc, runs, req, launch, script_path, files, process, stdout_pipe,
                   stderr_pipe, stdout_remainder, stderr_remainder, yaml_started,
                   yaml_buffer, text_buffer, output_queue, produced, exec_env,
                   cache0, hist, response, delivered, disconnected, cmd, peer, catalog_vars>>

\* the command runs to its end while the handler is blocked
FsProcExit ==
    /\ fs_pc = "communicate"
    /\ running_processes[command_id].state = "running"
    /\ LET proc == running_processes[command_id] IN
       running_processes' =
           [running_processes EXCEPT ![command_id] =
               [proc EXCEPT !.state = "exited",
                            !.returncode = IF proc.signalled THEN SIGTERM_CODE
                                           ELSE proc.prog.code]]
    /\ UNCHANGED <<fs_pc, command_id, clock, fs_response, cancel_response>>
    /\ UNCHANGED <<pc, runs, req, launch, script_path, files, process, stdout_pipe,
                   stderr_pipe, stdout_remainder, stderr_remainder, yaml_started,
                   yaml_buffer, text_buffer, output_queue, produced, exec_env,
                   cache0, hist, response, delivered, disconnected, cmd, peer, catalog_vars>>

\* lines 300-458: communicate returns; a non-zero code is answered with 500,
\* a zero code with the output and the command id; finally the id is removed
FsCommandEnd ==
    /\ fs_pc = "communicate"
    /\ running_processes[command_id].state = "exited"
    /\ fs_response' = IF running_processes[command_id].returncode # 0
                      THEN [status |-> 500]
                      ELSE [status |-> 200, command_id |-> command_id]
    /\ running_processes' = IF command_id \in DOMAIN running_processes
                            THEN DictDel(running_processes, command_id)
                            ELSE running_processes
    /\ fs_pc' = "idle"
    /\ UNCHANGED <<command_id, clock, cancel_response>>
    /\ UNCHANGED <<pc, runs, req, launch, script_path, files, process, stdout_pipe,
                   stderr_pipe, stdout_remainder, stderr_remainder, yaml_started,
                   yaml_buffer, text_buffer, output_queue, produced, exec_env,
                   cache0, hist, response, delivered, disconnected, cmd, peer, catalog_vars>>

\* os.killpg(os.getpgid(process.pid), sig)
killpg(proc, sig) ==
    IF proc.state = "exited" THEN proc
    ELSE [proc EXCEPT !.signalled = TRUE,
                      !.signals = Append(@, Signal(sig, "group"))]

\* lines 479-495 on a tracked process: SIGTERM to the group, wait(timeout=1),
\* then SIGKILL to the group when the wait timed out
CancelProtocol(proc, timed_out) ==
    IF proc.state = "exited" THEN proc
    ELSE IF timed_out
         THEN killpg(killpg(proc, "SIGTERM"), "SIGKILL")
         ELSE [killpg(proc, "SIGTERM") EXCEPT !.state = "exited",
                                              !.returncode = SIGTERM_CODE]

\* the ids a client may ask to cancel
CancelIds == FsCommands \X (1..MaxCommands)

\* cancel_command (lines 474-503).  The HTTPException(404) of line 477 is
\* raised inside the try block and caught by `except Exception` (line 502),
\* which answers 500.
CancelCommand(id, timed_out) ==
    /\ LoopFree
    /\ IF id \notin DOMAIN running_processes
       THEN /\ cancel_response' = [status |-> 500, command_id |-> id, tracked |-> FALSE]
            /\ UNCHANGED running_processes
       ELSE /\ cancel_response' =
                   [status |-> 200, command_id |-> id, tracked |-> TRUE,
                    signals |-> CancelProtocol(running_processes[id], timed_out).signals]
            /\ running_processes' = DictDel(running_processes, id)
    /\ UNCHANGED <<fs_pc, command_id, clock, fs_response>>
    /\ UNCHANGED <<pc, runs, req, launch, script_path, files, process, stdout_pipe,
                   stderr_pipe, stdout_remainder, stderr_remainder, yaml_started,
                   yaml_buffer, text_buffer, output_queue, produced, exec_env,
                   cache0, hist, response, delivered, disconnected, cmd, peer, catalog_vars>>

NextRegistry ==
    \/ FsCommandRejected
    \/ \E c \in FsCommands, code \in FsOutcomes : FsCommandStart(c, code)
    \/ FsProcExit
    \/ FsCommandEnd
    \/ \E id \in CancelIds, timed_out \in BOOLEAN : CancelCommand(id, timed_out)

SpecRegistry == Init /\ [][NextRegistry]_vars

----------------------------------------------------------------------------

Next ==
    \/ \E r \in Requests : RequestNotFound(r)
    \/ \E r \in Requests, fault \in FileFaults : RequestFileError(r, fault)
    \/ \E r \in Requests : RequestLaunch(r)
    \/ \E p \in Programs : SpawnOk(p)
    \/ SpawnFails
    \/ PollDisconnected
    \/ \E raises \in BOOLEAN : PollDisconnectedExited(raises)
    \/ PollConnected
    \/ \E k \in 1..PipeCap : ReadStdout(k)
    \/ ReadStdoutEOF
    \/ \E k \in 1..PipeCap : ReadStderr(k)
    \/ ReadStderrEOF
    \/ Assemble
    \/ GenDisconnected
    \/ GenDeliver
    \/ GenDone
    \/ Disconnect
    \/ ProcWrite
    \/ ProcExit
    \/ ProcTerminated

Spec == Init /\ [][Next]_vars

----------------------------------------------------------------------------
(* The read loop alone, on every input of a bounded set: the script has
   written its output and exited before the first read, the consumer stays
   connected, and each read returns any non-empty prefix of what is buffered. *)

\* the pieces the inputs are made of: a letter, "\n", "\r", and the two
\* bytes of one non-ASCII character
DemuxUnits == {<<"a">>, <<NL>>, <<CR>>, <<"C3", "A9">>}

\* the byte strings made of at most n pieces
RECURSIVE UnitStrings(_)
UnitStrings(n) ==
    IF n = 0 THEN {<<>>}
    ELSE LET S == UnitStrings(n - 1) IN S \cup {t \o u : t \in S, u \in DemuxUnits}

\* stdout contents with the marker: before it nothing, part of a line or a
\* whole line; after it nothing, text, a terminator, both, or a second
\* marker line
MarkerInputs ==
    {pre \o Marker \o suf :
        pre \in {<<>>, <<"a">>, <<"a", NL>>},
        suf \in {<<>>, <<"k">>, <<NL>>, <<"k", NL>>, <<NL, "k">>,
                 <<NL>> \o Marker \o <<NL>>}}

\* contents of both streams at once: stdout with and without a marker line,
\* stderr with a marker on a terminated line and on the unterminated last one
BothInputs ==
    {<<out, err>> :
        out \in {<<"a", NL>>, <<"a", NL>> \o Marker \o <<NL, "k", NL>>},
        err \in {<<"e", NL>> \o Marker \o <<NL>>, <<"e", NL>> \o Marker}}

\* what the script wrote to (stdout, stderr)
DemuxInputs ==
    {<<out, <<>>>> : out \in UnitStrings(MaxUnits) \cup MarkerInputs}
        \cup {<<<<>>, err>> : err \in UnitStrings(MaxUnits)}
        \cup BothInputs

\* the read loop is about to start on a script that has written input and
\* has exited (state "exited") or is about to (state "running")
DemuxStart(input, state) ==
        LET r == [name |-> "s1", args |-> None]
            s == get_script_by_name(r.name)[1]
            writes == (IF input[1] # <<>> THEN <<<<"out", input[1]>>>> ELSE <<>>)
                         \o (IF input[2] # <<>> THEN <<<<"err", input[2]>>>> ELSE <<>>)
        IN  /\ pc = "poll"
            /\ runs = 1
            /\ req = r
            /\ launch = "spawned"
            /\ script_path = ScriptPath(s)
            /\ files = {ScriptPath(s)}
            /\ process = [state |-> state, prog |-> Prog(writes, 0),
                          wpos |-> Len(writes), returncode |-> 0,
                          signalled |-> FALSE, signals |-> <<>>]
            /\ stdout_pipe = input[1]
            /\ stderr_pipe = input[2]
            /\ stdout_remainder = <<>>
            /\ stderr_remainder = <<>>
            /\ yaml_started = FALSE
            /\ yaml_buffer = <<>>
            /\ text_buffer = <<>>
            /\ output_queue = <<>>
            /\ produced = <<>>
            /\ exec_env = <<>>
            /\ cache0 = <<>>
            /\ hist = <<>>
            /\ response = "none"
            /\ delivered = <<>>
            /\ disconnected = FALSE
            /\ cmd = BuildCmd(r, s, <<>>)
            /\ PeerInit
            /\ RegistryInit
            /\ CatalogInit

InitDemux == \E input \in DemuxInputs : DemuxStart(input, "exited")

NextDemux ==
    \/ PollConnected
    \/ \E k \in 1..PipeCap : ReadStdout(k)
    \/ ReadStdoutEOF
    \/ \E k \in 1..PipeCap : ReadStderr(k)
    \/ ReadStderrEOF

SpecDemux == InitDemux /\ [][NextDemux]_vars

----------------------------------------------------------------------------
(* The read loop with its two ways out: end of input on both pipes, and the
   consumer going away.  The script has written its output and has exited or
   is still running. *)

\* what the script wrote to (stdout, stderr): marker lines, both streams at
\* once, and unterminated text on one stream or on both
FlushInputs ==
    {<<out, <<>>>> : out \in MarkerInputs}
        \cup BothInputs
        \cup {<<<<"a">>, <<>>>>, <<<<"a", NL>>, <<>>>>, <<<<>>, <<"e">>>>,
              <<<<"a">>, <<"e">>>>, <<<<"a", NL, "a">>, <<"e", NL, "e">>>>}

InitFlush ==
    \E input \in FlushInputs, state \in {"exited", "running"} :
        DemuxStart(input, state)

NextFlush ==
    \/ NextDemux
    \/ Disconnect
    \/ PollDisconnected
    \/ \E raises \in BOOLEAN : PollDisconnectedExited(raises)
    \/ ProcExit
    \/ ProcTerminated

SpecFlush == InitFlush /\ [][NextFlush]_vars

----------------------------------------------------------------------------
(* The read loop and a script that is still writing: a write blocks while
   the pipe has no room for it, a read while the pipe is empty and open.
   The consumer stays connected. *)

\* a script that repeats one write n times and exits with 0
RECURSIVE Repeat(_, _)
Repeat(w, n) == IF n = 0 THEN <<>> ELSE <<w>> \o Repeat(w, n - 1)

\* the writes of the long scripts hold more than a pipe does, whatever part
\* of the first write the loop has taken
LongWrites == (PipeCap \div 2) + 2

DrainPrograms ==
    { Prog(<< <<"out", <<"a", NL>>>>, <<"err", <<"e", NL>>>> >>, 0),
      Prog(Repeat(<<"out", <<"a", NL>>>>, LongWrites), 0),
      Prog(Repeat(<<"err", <<"e", NL>>>>, LongWrites), 0) }

\* the request for s1 has spawned a process that runs p and has not written yet
DrainStart(p) ==
    LET r == [name |-> "s1", args |-> None]
        s == get_script_by_name(r.name)[1]
    IN  /\ pc = "poll"
        /\ runs = 1
        /\ req = r
        /\ launch = "spawned"
        /\ script_path = ScriptPath(s)
        /\ files = {ScriptPath(s)}
        /\ process = [state |-> "running", prog |-> p, wpos |-> 0,
                      returncode |-> 0, signalled |-> FALSE, signals |-> <<>>]
        /\ stdout_pipe = <<>>
        /\ stderr_pipe = <<>>
        /\ stdout_remainder = <<>>
        /\ stderr_remainder = <<>>
        /\ yaml_started = FALSE
        /\ yaml_buffer = <<>>
        /\ text_buffer = <<>>
        /\ output_queue = <<>>
        /\ produced = <<>>
        /\ exec_env = <<>>
        /\ cache0 = <<>>
        /\ hist = <<>>
        /\ response = "none"
        /\ delivered = <<>>
        /\ disconnected = FALSE
        /\ cmd = BuildCmd(r, s, <<>>)
        /\ PeerInit
        /\ RegistryInit
        /\ CatalogInit

InitDrain == \E p \in DrainPrograms : DrainStart(p)

NextDrain ==
    \/ NextDemux
    \/ ProcWrite
    \/ ProcExit

SpecDrain == InitDrain /\ [][NextDrain]_vars

----------------------------------------------------------------------------
(* Two execute_script_stream requests in progress at once.  The first is
   modelled in full by the actions above.  Of the second only the steps that
   touch what the two share are modelled: the files under /tmp and exec_env.
   Its process, queue and buffers are locals of its own call; what its read
   loop collected is chosen when the loop ends.  The steps of the two
   interleave at their suspension points. *)

\* what the interpreter does when the script file is gone at its start
MissingFileProg(s) ==
    IF is_python(s)
    THEN Prog(<< <<"err", <<"can't open file", NL>>>> >>, 2)
    ELSE Prog(<< <<"err", <<"No such file or directory", NL>>>> >>, 127)

\* create_subprocess_exec returns a process whose interpreter finds no file
SpawnMissingFile ==
    /\ pc = "spawn"
    /\ script_path \notin files
    /\ process' = [state |-> "running",
                   prog |-> MissingFileProg(get_script_by_name(req.name)[1]),
                   wpos |-> 0, returncode |-> 0, signalled |-> FALSE,
                   signals |-> <<>>]
    /\ launch' = "spawned"
    /\ pc' = "poll"
    /\ UNCHANGED <<runs, req, script_path, files, stdout_pipe, stderr_pipe,
                   stdout_remainder, stderr_remainder, yaml_started, yaml_buffer,
                   text_buffer, output_queue, produced, exec_env, cache0, hist,
                   response, delivered, disconnected>>
    /\ UNCHANGED <<cmd, outside>>

\* (text_buffer, yaml_buffer or None) as the second request's loop returns them
PeerYields ==
    { [text_buffer |-> <<"b", NL>>, yaml_result |-> None],
      [text_buffer |-> <<"b", NL>>, yaml_result |-> <<"p", NL>>] }

\* lines 668-766 of the second request: the file is written, the spawn awaited
PeerLaunch(r) ==
    /\ peer.pc = "none"
    /\ get_script_by_name(r.name) # <<>>
    /\ LET s == get_script_by_name(r.name)[1] IN
       /\ files' = FilesWritten(files, s)
       /\ peer' = [peer EXCEPT !.pc = "spawn", !.req = r,
                               !.script_path = ScriptPath(s),
                               !.concurrent = InFlight]
    /\ UNCHANGED <<pc, runs, req, launch, script_path, process, stdout_pipe,
                   stderr_pipe, stdout_remainder, stderr_remainder, yaml_started,
                   yaml_buffer, text_buffer, output_queue, produced, exec_env,
                   cache0, hist, response, delivered, disconnected, cmd,
                   registry_vars, catalog_vars>>

\* its process is spawned and its read loop runs
PeerSpawn ==
    /\ peer.pc = "spawn"
    /\ peer' = [peer EXCEPT !.pc = "loop"]
    /\ UNCHANGED <<pc, runs, req, launch, script_path, files, process, stdout_pipe,
                   stderr_pipe, stdout_remainder, stderr_remainder, yaml_started,
                   yaml_buffer, text_buffer, output_queue, produced, exec_env,
                   cache0, hist, response, delivered, disconnected, cmd,
                   registry_vars, catalog_vars>>

\* lines 853-869 of the second request: finally os.remove(script_path), then
\* the return of what the loop collected
PeerLeaveLoop(y) ==
    /\ peer.pc = "loop"
    /\ files' = remove(files, peer.script_path)
    /\ peer' = [peer EXCEPT !.pc = "assemble", !.text_buffer = y.text_buffer,
                            !.yaml_result = y.yaml_result]
    /\ UNCHANGED <<pc, runs, req, launch, script_path, process, stdout_pipe,
                   stderr_pipe, stdout_remainder, stderr_remainder, yaml_started,
                   yaml_buffer, text_buffer, output_queue, produced, exec_env,
                   cache0, hist, response, delivered, disconnected, cmd,
                   registry_vars, catalog_vars>>

\* lines 873-882 of the second request
PeerAssemble ==
    /\ peer.pc = "assemble"
    /\ peer' = [peer EXCEPT !.pc = "done"]
    /\ IF peer.yaml_result # None
       THEN /\ exec_env' = add_result(exec_env,
                              ExecResult("json", peer.req.name,
                                         safe_load(peer.yaml_result),
                                         peer.text_buffer, peer.req.args))
            /\ hist' = Append(hist,
                          [valid |-> TRUE,
                           result |-> <<peer.req.name, peer.text_buffer,
                                        safe_load(peer.yaml_result), peer.req.args>>])
       ELSE /\ hist' = Append(hist, NoYield)
            /\ UNCHANGED exec_env
    /\ UNCHANGED <<pc, runs, req, launch, script_path, files, process, stdout_pipe,
                   stderr_pipe, stdout_remainder, stderr_remainder, yaml_started,
                   yaml_buffer, text_buffer, output_queue, produced, cache0,
                   response, delivered, disconnected, cmd, registry_vars,
                   catalog_vars>>

\* the server after MaxRuns - 1 requests for a name the catalog does not hold
InitConc ==
    /\ pc = "closed"
    /\ runs = MaxRuns - 1
    /\ req = [name |-> "nope", args |-> None]
    /\ launch = "not_found"
    /\ script_path = <<>>
    /\ files = {}
    /\ process = NoProcess
    /\ stdout_pipe = <<>>
    /\ stderr_pipe = <<>>
    /\ stdout_remainder = <<>>
    /\ stderr_remainder = <<>>
    /\ yaml_started = FALSE
    /\ yaml_buffer = <<>>
    /\ text_buffer = <<>>
    /\ output_queue = <<>>
    /\ produced = <<>>
    /\ exec_env = <<>>
    /\ cache0 = <<>>
    /\ hist = [i \in 1..(MaxRuns - 1) |-> NoYield]
    /\ response = "http_500"
    /\ delivered = <<>>
    /\ disconnected = FALSE
    /\ cmd = <<>>
    /\ PeerInit
    /\ RegistryInit
    /\ CatalogInit

NextConc ==
    \/ Next
    \/ SpawnMissingFile
    \/ \E r \in Requests : PeerLaunch(r)
    \/ PeerSpawn
    \/ \E y \in PeerYields : PeerLeaveLoop(y)
    \/ PeerAssemble

SpecConc == InitConc /\ [][NextConc]_vars

----------------------------------------------------------------------------
(* event_generator when one of its own statements raises an exception the
   program does not expect.  Lines 893-901 lie inside the inner try block;
   the disconnect poll of line 887 lies outside it. *)

\* f"Error: {str(e)}" for such an exception
GenErrorMessage == <<"Error: unexpected failure">>

\* the frame of lines 909 and 917
GenErrorFrame == [event |-> "error", data |-> GenErrorMessage]

\* lines 907-914: an exception inside the inner try block: the error frame,
\* break, then the final event
GenFailInner ==
    /\ pc = "gen"
    /\ ~disconnected
    /\ delivered' = delivered \o <<GenErrorFrame, DoneFrame>>
    /\ pc' = "closed"
    /\ UNCHANGED <<runs, req, launch, script_path, files, process, stdout_pipe,
                   stderr_pipe, stdout_remainder, stderr_remainder, yaml_started,
                   yaml_buffer, text_buffer, output_queue, produced, exec_env,
                   cache0, hist, response, disconnected>>
    /\ UNCHANGED <<cmd, outside>>

\* lines 915-917: an exception raised by line 887 reaches the outer except
\* clause: the error frame is the last thing the generator yields
GenFailOuter ==
    /\ pc = "gen"
    /\ ~disconnected
    /\ delivered' = Append(delivered, GenErrorFrame)
    /\ pc' = "closed"
    /\ UNCHANGED <<runs, req, launch, script_path, files, process, stdout_pipe,
                   stderr_pipe, stdout_remainder, stderr_remainder, yaml_started,
                   yaml_buffer, text_buffer, output_queue, produced, exec_env,
                   cache0, hist, response, disconnected>>
    /\ UNCHANGED <<cmd, outside>>

NextFault ==
    \/ Next
    \/ GenFailInner
    \/ GenFailOuter

SpecFault == Init /\ [][NextFault]_vars

----------------------------------------------------------------------------
(* The script catalog: the scripts table of scripts.db (database.py) and the
   save_script endpoint (main.py, lines 571-579).  The database itself is
   taken to work: a statement fails only on a constraint of the schema. *)

\* the white space of the modelled texts
WhiteSpace == {SPACE, NL, CR, FF}

\* str.strip(): white space is removed from both ends
RECURSIVE lstrip(_)
lstrip(text) ==
    IF text # <<>> /\ text[1] \in WhiteSpace THEN lstrip(Tail(text)) ELSE text

RECURSIVE rstrip(_)
rstrip(text) ==
    IF text # <<>> /\ text[Len(text)] \in WhiteSpace
    THEN rstrip(SubSeq(text, 1, Len(text) - 1))
    ELSE text

strip(text) == rstrip(lstrip(text))

\* the names of the modelled save requests
SaveNames == {<<"a">>, <<SPACE, "a">>, <<"b">>}

\* the Script payloads of the modelled save requests
ScriptPayloads ==
    [name : SaveNames, description : {"d1", "d2"}, body : {"echo", "import "},
     category : {"Uncategorized", "tools"}, accepts_reference : BOOLEAN]

\* sqlite3 stores a Python bool as the integer 1 or 0; the column also takes
\* text, so its values are written as text here
adapt_bool(b) == IF b THEN "1" ELSE "0"

\* a row of the scripts table
Row(id, name, p) ==
    [id |-> id, name |-> name, description |-> p.description, body |-> p.body,
     accepts_reference |-> adapt_bool(p.accepts_reference),
     category |-> p.category]

\* mutant of insert_on_conflict_update: a plain INSERT, which the UNIQUE
\* constraint on name rejects when the name exists
insert_only(rows, id, p) ==
    IF \E r \in rows : r.name = strip(p.name)
    THEN [ok |-> FALSE, inserted |-> FALSE, rows |-> rows]
    ELSE [ok |-> TRUE, inserted |-> TRUE,
          rows |-> rows \cup {Row(id, strip(p.name), p)}]

\* database.save_script: INSERT ... ON CONFLICT(name) DO UPDATE SET
\* description, accepts_reference, body, category; the result says whether
\* the statement succeeded and whether it used a new id
insert_on_conflict_update(rows, id, p) ==
    LET name == strip(p.name)
        old == {r \in rows : r.name = name}
    IN  IF old = {}
        THEN [ok |-> TRUE, inserted |-> TRUE, rows |-> rows \cup {Row(id, name, p)}]
        ELSE [ok |-> TRUE, inserted |-> FALSE,
              rows |-> (rows \ old) \cup {Row(r.id, r.name, p) : r \in old}]

\* the save_script endpoint: 200 when database.save_script returns True,
\* HTTPException(500) when it returns False
SaveScript(p) ==
    /\ next_id <= MaxIds
    /\ LET res == insert_on_conflict_update(scripts, next_id, p) IN
       /\ scripts' = res.rows
       /\ next_id' = IF res.inserted THEN next_id + 1 ELSE next_id
       /\ save_response' =
              [status |-> IF res.ok THEN 200 ELSE 500, script |-> p,
               replaced |-> \E r \in scripts :
                               r.name = strip(p.name) /\ r # Row(r.id, r.name, p)]
    /\ saved' = saved \cup {p.name}
    /\ UNCHANGED <<pc, runs, req, launch, script_path, files, process, stdout_pipe,
                   stderr_pipe, stdout_remainder, stderr_remainder, yaml_started,
                   yaml_buffer, text_buffer, output_queue, produced, exec_env,
                   cache0, hist, response, delivered, disconnected, cmd, peer,
                   registry_vars, library_vars>>

NextCatalog == \E p \in ScriptPayloads : SaveScript(p)

SpecCatalog == Init /\ [][NextCatalog]_vars

----------------------------------------------------------------------------
(* The other catalog endpoints: get_script, delete_script and
   rename_script_endpoint (main.py, lines 550-624) over database.py. *)

\* everything outside the catalog
not_catalog == <<pc, runs, req, launch, script_path, files, process, stdout_pipe,
                 stderr_pipe, stdout_remainder, stderr_remainder, yaml_started,
                 yaml_buffer, text_buffer, output_queue, produced, exec_env,
                 cache0, hist, response, delivered, disconnected, cmd, peer,
                 registry_vars, written>>

\* everything outside the catalog and outside the temp file of Materialize
not_catalog_but_written ==
    <<pc, runs, req, launch, script_path, files, process, stdout_pipe,
      stderr_pipe, stdout_remainder, stderr_remainder, yaml_started,
      yaml_buffer, text_buffer, output_queue, produced, exec_env,
      cache0, hist, response, delivered, disconnected, cmd, peer,
      registry_vars>>

\* SELECT ... FROM scripts WHERE name = ?, fetchone(): <<row>>, or the empty
\* tuple for None
fetchone(rows, name) ==
    IF \E r \in rows : r.name = name
    THEN <<CHOOSE r \in rows : r.name = name>>
    ELSE <<>>

\* database.get_script_by_name on the scripts table: the name is stripped
select_script(rows, name) == fetchone(rows, strip(name))

\* database.get_all_scripts: every row without its body (the order of the
\* listing, by category and name, is not represented)
get_all_scripts(rows) ==
    {[id |-> r.id, name |-> r.name, description |-> r.description,
      accepts_reference |-> r.accepts_reference, category |-> r.category] :
        r \in rows}

\* the names in the path of the modelled lookup and delete requests
PathNames == {<<"a">>, <<SPACE, "a">>, <<"c">>}

\* the payloads the catalog requests of this section save
LibraryPayloads ==
    {p \in ScriptPayloads :
        /\ p.name \in {<<"a">>, <<"b">>}
        /\ p.description = "d1"
        /\ p.body = "echo"
        /\ p.category = "tools"
        /\ ~p.accepts_reference}

\* the get_script endpoint: the HTTPException(404) for a missing script is
\* raised inside the try block, whose except Exception clause catches it and
\* raises HTTPException(500) in its place
GetScript(name) ==
    /\ LET script == select_script(scripts, name) IN
       catalog_response' =
           IF script = <<>>
           THEN [endpoint |-> "get_script", status |-> 500, name |-> name,
                 script |-> script, raised |-> 404]
           ELSE [endpoint |-> "get_script", status |-> 200, name |-> name,
                 script |-> script, raised |-> 0]
    /\ UNCHANGED <<not_catalog, scripts, next_id, save_response, saved,
                   script_args, args_response, recorded>>

\* mutant of delete_script: the statement deletes no row
delete_script_no_row(rows, name) == [ok |-> TRUE, rows |-> rows]

\* database.delete_script: DELETE FROM scripts WHERE name = ? on the stripped
\* name; True whether or not a row was deleted
delete_script(rows, name) ==
    [ok |-> TRUE, rows |-> {r \in rows : r.name # strip(name)}]

\* the delete_script endpoint: the success message when database.delete_script
\* returns True; otherwise HTTPException(404), raised inside the try block and
\* replaced by HTTPException(500)
DeleteScript(name) ==
    /\ LET res == delete_script(scripts, name) IN
       /\ scripts' = res.rows
       /\ catalog_response' =
              [endpoint |-> "delete_script",
               status |-> IF res.ok THEN 200 ELSE 500, name |-> name,
               existed |-> select_script(scripts, name) # <<>>]
    /\ UNCHANGED <<not_catalog, next_id, save_response, saved, script_args,
                   args_response, recorded>>

\* the payloads of the modelled rename requests; the empty old name is the
\* missing field
RenamePayloads ==
    [old_name : {<<>>, <<"a">>}, new_name : {<<"a">>, <<"b">>},
     description : {"d2"}, body : {"echo"}, category : {"tools"}]

\* mutant of rename_script: the new name is not looked up first
rename_script_unchecked(rows, old_name, new_name, description, body, accepts_reference, category) ==
    [ok |-> TRUE,
     rows |-> {IF r.name = strip(old_name)
               THEN [id |-> r.id, name |-> strip(new_name),
                     description |-> description, body |-> body,
                     accepts_reference |-> accepts_reference,
                     category |-> category]
               ELSE r : r \in rows}]

\* database.rename_script: refuses when the new name belongs to another row,
\* else UPDATE scripts SET name, description, body, accepts_reference,
\* category WHERE name = old_name; True even when no row has the old name
rename_script(rows, old_name, new_name, description, body, accepts_reference, category) ==
    LET old == strip(old_name)
        new == strip(new_name)
        row == fetchone(rows, new)
        old_row == fetchone(rows, old)
    IN  IF row # <<>> /\ (old_row = <<>> \/ old_row[1].id # row[1].id)
        THEN [ok |-> FALSE, rows |-> rows]
        ELSE [ok |-> TRUE,
              rows |-> {IF r.name = old
                        THEN [id |-> r.id, name |-> new,
                              description |-> description, body |-> body,
                              accepts_reference |-> accepts_reference,
                              category |-> category]
                        ELSE r : r \in rows}]

\* rename_script_endpoint: 400 when a name is missing or the database
\* refuses; the call passes category as the fifth positional argument, which
\* is accepts_reference, so the category parameter keeps its default
RenameScript(p) ==
    /\ LET missing == p.old_name = <<>> \/ p.new_name = <<>>
           res == rename_script(scripts, p.old_name, p.new_name, p.description,
                                p.body, p.category, "Uncategorized")
       IN  /\ scripts' = IF missing THEN scripts ELSE res.rows
           /\ catalog_response' =
                  [endpoint |-> "rename_script",
                   status |-> IF missing \/ ~res.ok THEN 400 ELSE 200,
                   payload |-> p]
    /\ UNCHANGED <<not_catalog, next_id, save_response, saved, script_args,
                   args_response, recorded>>

NextLibrary ==
    \/ \E p \in LibraryPayloads : SaveScript(p)
    \/ \E name \in PathNames : GetScript(name)
    \/ \E name \in PathNames : DeleteScript(name)
    \/ \E p \in RenamePayloads : RenameScript(p)

SpecLibrary == Init /\ [][NextLibrary]_vars

----------------------------------------------------------------------------
(* The argument history: the script_args table of scripts.db, written by
   database.save_script_args and read by the get_script_args endpoint
   (main.py, lines 561-569). *)

\* the columns of script_args as init_db creates the table
ArgColumns == {"id", "script_id", "args", "working_dir"}

\* the UNIQUE constraints of script_args as init_db creates the table: none
ArgUnique == {}

\* database.get_arg_column: the column that refers to the script
get_arg_column ==
    IF "script_id" \in ArgColumns THEN "script_id"
    ELSE IF "script_name" \in ArgColumns THEN "script_name"
    ELSE IF "name" \in ArgColumns THEN "name"
    ELSE "script_id"

\* LIMIT 10 of get_script_args
HistoryLimit == 10

\* the names and argument strings of the modelled usages
HistoryNames == {<<"a">>, <<SPACE, "a">>, <<"b">>}
ArgTexts == {"--foo 1", "--bar 2"}

\* datetime.utcnow() of a usage: later than every stored used_at
utcnow(arg_rows) ==
    1 + Cardinality(arg_rows)

\* database.save_script_args: False when the script has no row; the second
\* INSERT names the column used_at and the conflict target (col, args,
\* working_dir), so it raises sqlite3.OperationalError unless the table has
\* that column and that UNIQUE constraint; the function then returns False
\* and closing the connection rolls the first INSERT back
save_script_args(rows, arg_rows, script_name, args, working_dir) ==
    LET script == fetchone(rows, strip(script_name))
        col == get_arg_column
        prepared == /\ "used_at" \in ArgColumns
                    /\ {col, "args", "working_dir"} \in ArgUnique
    IN  IF script = <<>> \/ ~prepared
        THEN [ok |-> FALSE, rows |-> arg_rows]
        ELSE LET ref_value == IF col = "script_id" THEN <<script[1].id>>
                              ELSE strip(script_name)
                 same(r) == /\ r.ref = ref_value
                            /\ r.args = args
                            /\ r.working_dir = working_dir
             IN  [ok |-> TRUE,
                  rows |-> {r \in arg_rows : ~same(r)} \cup
                           {[ref |-> ref_value, args |-> args,
                             working_dir |-> working_dir,
                             used_at |-> utcnow(arg_rows)]}]

\* ORDER BY used_at DESC
RECURSIVE order_by_used_at_desc(_)
order_by_used_at_desc(arg_rows) ==
    IF arg_rows = {} THEN <<>>
    ELSE LET r == CHOOSE x \in arg_rows : \A y \in arg_rows : y.used_at <= x.used_at
         IN  <<r>> \o order_by_used_at_desc(arg_rows \ {r})

\* database.get_script_args: the empty list when the script has no row under
\* the name as given (the name is not stripped) and when the SELECT raises
\* 'no such column' for used_at; else the last 10 usages, latest first, each
\* a dict of args and working_dir
get_script_args(rows, arg_rows, script_name) ==
    LET col == get_arg_column
        id_row == fetchone(rows, script_name)
    IN  IF col = "script_id" /\ id_row = <<>> THEN <<>>
        ELSE IF "used_at" \notin ArgColumns THEN <<>>
        ELSE LET ref_value == IF col = "script_id" THEN <<id_row[1].id>>
                              ELSE script_name
                 found == order_by_used_at_desc({r \in arg_rows : r.ref = ref_value})
             IN  [i \in 1..Min(HistoryLimit, Len(found)) |->
                     [args |-> found[i].args, working_dir |-> found[i].working_dir]]

\* a usage is recorded: database.save_script_args(script_name, args), as
\* execute_script_stream calls it for a request with arguments
SaveScriptArgs(script_name, args) ==
    /\ LET res == save_script_args(scripts, script_args, script_name, args, None) IN
       script_args' = res.rows
    /\ recorded' =
           IF fetchone(scripts, strip(script_name)) = <<>>
           THEN recorded
           ELSE {u \in recorded : u[1] # strip(script_name)} \cup
                {<<strip(script_name), args>>}
    /\ UNCHANGED <<not_catalog, scripts, next_id, save_response, saved,
                   catalog_response, args_response>>

\* the get_script_args endpoint: {"args": ...}, the empty list on any exception
GetScriptArgs(name) ==
    /\ args_response' =
           [status |-> 200, name |-> name,
            args |-> get_script_args(scripts, script_args, name)]
    /\ UNCHANGED <<not_catalog, scripts, next_id, save_response, saved,
                   catalog_response, script_args, recorded>>

NextHistory ==
    \/ \E p \in LibraryPayloads : SaveScript(p)
    \/ \E name \in HistoryNames, args \in ArgTexts : SaveScriptArgs(name, args)
    \/ \E name \in HistoryNames : GetScriptArgs(name)

SpecHistory == Init /\ [][NextHistory]_vars

----------------------------------------------------------------------------
(* The language of a script and its temp file (main.py, lines 685-746), on
   names and bodies as text.  The body is the one of the catalog (line 681);
   the name is the one of the request. *)

PyExt == <<".", "p", "y">>
ShExt == <<".", "s", "h">>
TmpPrefix == <<"/", "t", "m", "p", "/", "s", "c", "r", "i", "p", "t", "_">>
UsrBin == <<"#", "!", "/", "u", "s", "r", "/", "b", "i", "n", "/">>
EnvPython == UsrBin \o <<"e", "n", "v", SPACE, "p", "y", "t", "h", "o", "n">>
UsrPython == UsrBin \o <<"p", "y", "t", "h", "o", "n">>
ImportKw == <<"i", "m", "p", "o", "r", "t", SPACE>>
FromKw == <<"f", "r", "o", "m", SPACE>>
BashShebang == <<"#", "!", "/", "b", "i", "n", "/", "b", "a", "s", "h", NL>>

\* str.startswith and str.endswith
startswith(text, prefix) ==
    Len(prefix) <= Len(text) /\ SubSeq(text, 1, Len(prefix)) = prefix

endswith(text, suffix) ==
    /\ Len(suffix) <= Len(text)
    /\ SubSeq(text, Len(text) - Len(suffix) + 1, Len(text)) = suffix

\* mutant of is_python_text: only the name is looked at
is_python_text_name_only(name, body) == endswith(name, PyExt)

\* is_python (lines 689-695), computed on the texts
is_python_text(name, body) ==
    \/ endswith(name, PyExt)
    \/ startswith(strip(body), EnvPython)
    \/ startswith(strip(body), UsrPython)
    \/ startswith(strip(body), ImportKw)
    \/ startswith(strip(body), FromKw)

\* lines 685 and 698-709: the path and the content of the file once the
\* `with` block has run to its end
script_file(name, body) ==
    IF is_python_text(name, body)
    THEN [path |-> TmpPrefix \o name \o ShExt \o PyExt, content |-> body]
    ELSE [path |-> TmpPrefix \o name \o ShExt, content |-> BashShebang \o body]

\* lines 742-746: the first two words of the command
cmd_prefix(name, body) ==
    IF is_python_text(name, body)
    THEN << <<"/usr/bin/python3">>, script_file(name, body).path >>
    ELSE << <<"/bin/bash">>, script_file(name, body).path >>

\* the names and the bodies the classification is applied to
ClassNames ==
    {<<"s">>, <<"s">> \o PyExt, <<"s">> \o PyExt \o <<SPACE>>, <<"p", "y">>}

ClassBodies ==
    {pre \o head \o rest :
        pre \in {<<>>, <<SPACE>>, <<NL, SPACE>>},
        head \in {ImportKw, FromKw, EnvPython, UsrPython, <<"e", "c", "h", "o">>,
                  <<"i", "m", "p", "o", "r", "t">>,
                  <<"#", "!", "/", "b", "i", "n", "/", "s", "h">>},
        rest \in {<<>>, <<"o", "s">>, <<NL>>, <<SPACE, NL, "x", NL>>}}

\* the handler classifies the script, writes its file and starts its argv
Materialize(name, body) ==
    /\ written' = [name |-> name, body |-> body,
                   file |-> script_file(name, body),
                   cmd |-> cmd_prefix(name, body)]
    /\ UNCHANGED <<not_catalog_but_written, scripts, next_id, save_response, saved,
                   catalog_response, script_args, args_response, recorded>>

NextClassify == \E name \in ClassNames, body \in ClassBodies : Materialize(name, body)

SpecClassify == Init /\ [][NextClassify]_vars

----------------------------------------------------------------------------
(* The get_last_result endpoint (main.py, lines 534-539) next to the
   executions of scripts, one request at a time *)

\* mutant of get_text: the cache is not looked at
get_text_empty(results) == <<>>

\* ExecEnv.get_text
get_text(results) ==
    IF Len(results) > 0 THEN results[1].text_result ELSE <<>>

\* GET /api/fs/get_last_result
GetLastResult ==
    /\ catalog_response' = [endpoint |-> "get_last_result", status |-> 200,
                            text |-> get_text(exec_env)]
    /\ UNCHANGED <<not_catalog, scripts, next_id, save_response, saved,
                   script_args, args_response, recorded>>

NextResult ==
    \/ Next
    \/ GetLastResult

SpecResult == Init /\ [][NextResult]_vars

----------------------------------------------------------------------------
(* Vocabulary of the properties *)

\* the positions of the read loop of stream_process_output
InLoop == pc \in {"poll", "read_out", "read_err"}

\* a step of the stream task
StreamStep ==
    \/ PollDisconnected
    \/ \E raises \in BOOLEAN : PollDisconnectedExited(raises)
    \/ PollConnected
    \/ \E k \in 1..PipeCap : ReadStdout(k)
    \/ ReadStdoutEOF
    \/ \E k \in 1..PipeCap : ReadStderr(k)
    \/ ReadStderrEOF

IsPrefix(s, t) == Len(s) <= Len(t) /\ SubSeq(t, 1, Len(s)) = s

DoneCount(frames) == Cardinality({i \in 1..Len(frames) : frames[i].event = "done"})

\* the frames of a sequence of events, in order
Frames(evs) == [i \in 1..Len(evs) |-> Frame(evs[i])]

\* the bytes the script has written to a stream so far
RECURSIVE WrittenTo(_, _, _)
WrittenTo(stream, writes, n) ==
    IF n = 0 THEN <<>>
    ELSE WrittenTo(stream, writes, n - 1) \o
         (IF writes[n][1] = stream THEN writes[n][2] ELSE <<>>)

Written(stream) == WrittenTo(stream, process.prog.writes, process.wpos)

\* the text of the delivered frames of one kind, program messages left out
DeliveredText(kind) ==
    Concat([i \in 1..Len(delivered) |->
              IF delivered[i].event = kind /\ delivered[i].data \notin Messages
              THEN delivered[i].data ELSE <<>>])

\* the launch outcomes that end the request before a process exists
LaunchFailures == {"not_found", "spawn_failed"} \cup FileFaults

\* the execution entered payload mode and its payload text does not parse
PayloadInvalid == yaml_started /\ ~YamlOk(yaml_buffer)

\* the event the dead except clause of lines 864-867 would have queued
InvalidPayloadFrame == [event |-> "error", data |-> <<"Invalid JSON received">>]

----------------------------------------------------------------------------
(* Properties *)

\* C1: every run request delivers exactly one `done` frame and it is the last
\* frame, on every path (as claimed; refuted by the unknown-script, launch
\* failure and invalid-payload paths, which deliver nothing).
C1_ExactlyOneDone ==
    /\ DoneCount(delivered) <= 1
    /\ DoneCount(delivered) = 1 => delivered[Len(delivered)].event = "done"
    /\ pc = "closed" => DoneCount(delivered) = 1

\* C2: delivery runs concurrently with the demultiplexer: whenever an event
\* is queued while the script still runs and the consumer is connected, the
\* delivery step is enabled (as claimed; refuted: the handler awaits the
\* whole stream task before the generator exists).
C2_ConcurrentDelivery ==
    (InLoop /\ output_queue # <<>> /\ process.state = "running" /\ ~disconnected)
        => ENABLED GenDeliver

\* C3: the consumer receives the events in the order they were produced: the
\* delivered frames before `done` are the frames of the first produced events,
\* and per stream the delivered text is a prefix of what the script wrote.
C3_OrderPreserved ==
    LET n == Len(delivered) - DoneCount(delivered) IN
    /\ n <= Len(produced)
    /\ SubSeq(delivered, 1, n) = Frames(SubSeq(produced, 1, n))
    /\ IsPrefix(DeliveredText("output"), replace_newlines(decode(Written("out"))))
    /\ IsPrefix(DeliveredText("error"), replace_newlines(decode(Written("err"))))

\* C3 witness: a finished stream that delivered an output line, a stderr line
\* and the exit code event before `done`.
C3_Witness ==
    /\ pc = "closed"
    /\ Len(delivered) = 4
    /\ delivered[1].event = "output"
    /\ delivered[2].event = "error"
    /\ delivered[3] = Frame(Event("error", ExitMessage(2)))

\* C4: an execution changes the cached result only by successfully parsing a
\* payload: otherwise the cache is what it was when the request arrived.
C4_CacheOnlyOnValidPayload ==
    exec_env # cache0 => (yaml_started /\ YamlOk(yaml_buffer) /\ pc \in {"gen", "closed"})

\* C4 witness: an execution with an invalid payload has ended while an
\* earlier result is cached.
C4_Witness ==
    /\ pc = "closed"
    /\ PayloadInvalid
    /\ exec_env # <<>>
    /\ exec_env = cache0

\* C5: the cache holds at most one result, and when exactly one of the
\* executions so far yielded a valid payload the cache holds that execution's
\* script name, output text, parsed payload and argument string.
C5_SingleSlotCache ==
    /\ Len(exec_env) <= 1
    /\ LET ks == {k \in 1..Len(hist) : hist[k].valid} IN
       Cardinality(ks) = 1 =>
          LET r == hist[CHOOSE k \in ks : TRUE].result IN
          exec_env = <<[type |-> "json", command |-> r[1], text_result |-> r[2],
                        json_result |-> r[3], args |-> r[4]]>>

\* C5 witness: the first execution yielded a valid payload with output text,
\* and a later execution of another script ran to its end without one.
C5_Witness ==
    /\ pc = "closed"
    /\ launch = "spawned"
    /\ response = "stream"
    /\ Len(hist) = 2
    /\ hist[1].valid
    /\ ~hist[2].valid
    /\ exec_env # <<>>
    /\ exec_env[1].text_result # <<>>
    /\ exec_env[1].command # req.name

\* C6: an execution whose payload does not parse still completes: its events
\* are delivered, then one error event for the payload, then `done`, and the
\* cache is not updated (as claimed; refuted: nothing is delivered).
C6_InvalidPayloadCompletes ==
    (pc = "closed" /\ PayloadInvalid /\ ~disconnected) =>
        /\ delivered = Frames(produced) \o <<InvalidPayloadFrame, DoneFrame>>
        /\ exec_env = cache0

\* C7: a non-zero exit code is delivered as exactly one error event, after
\* every line event and before `done`, whatever the payload outcome; exit
\* code zero delivers none (as claimed; refuted when the payload does not
\* parse).
C7_ExitCodeEvent ==
    (pc = "closed" /\ launch = "spawned" /\ process.state = "exited" /\ ~disconnected) =>
        LET code == process.returncode
            hits == {i \in 1..Len(delivered) :
                        delivered[i].data \in {ExitMessage(2), ExitMessage(SIGTERM_CODE)}}
        IN  IF code = 0 THEN hits = {}
            ELSE /\ hits = {Len(delivered) - 1}
                 /\ delivered[Len(delivered) - 1] = Frame(Event("error", ExitMessage(code)))
                 /\ delivered[Len(delivered)] = DoneFrame

C9_TempFileRemoved ==
    pc = "closed" => script_path \notin files

\* C10: after a disconnect the read loop can always take its next step without
\* the script writing or exiting, so the cancellation is reached in a bounded
\* number of cycles (as claimed; refuted: the loop is blocked in a pipe read).
C10_CancelNotBlocked ==
    (InLoop /\ disconnected /\ process.state = "running") => ENABLED StreamStep

\* C11: a cancellation sends SIGTERM to the whole process group of the
\* execution first and, once the server has moved on from the cancellation,
\* the process has exited or its group has been sent SIGKILL (as claimed;
\* refuted by the disconnect branch: terminate() signals one process id,
\* is followed by no wait and by no kill).
C11_CancelProtocol ==
    process.signals # <<>> =>
        /\ process.signals[1] = Signal("SIGTERM", "group")
        /\ (~InLoop =>
               \/ process.state = "exited"
               \/ \E i \in 2..Len(process.signals) :
                      process.signals[i] = Signal("SIGKILL", "group"))

\* C12: cancel(id) of an id that is not tracked is answered 404 and leaves the
\* registry as it was; cancel(id) of a tracked id is acknowledged and the id
\* is tracked no longer (as claimed; refuted: the 404 is answered as 500).
C12_CancelAnswers ==
    cancel_response # NoResponse =>
        /\ cancel_response.status = IF cancel_response.tracked THEN 200 ELSE 404
        /\ cancel_response.tracked =>
               cancel_response.command_id \notin DOMAIN running_processes

\* the texts of the events of one kind, in order
EventTexts(evs, kind) ==
    LET IsKind(e) == e[1] = kind
        sel == SelectSeq(evs, IsKind)
    IN  [i \in 1..Len(sel) |-> sel[i][2]]

\* what the stdout handling yields when bs arrives in one read and end of
\* input in the next
OneReadStdout(bs) ==
    LET decoded == decode(bs) IN
    FinalFlush(RouteLines(Demux(FALSE, <<>>, <<>>, <<>>), CompleteLines(<<>>, decoded)),
               NewRemainder(<<>>, decoded), <<>>, 0)

\* the same for stderr
OneReadStderr(bs) ==
    LET decoded == decode(bs) IN
    FinalFlush(Demux(FALSE, <<>>, <<>>, ErrorEvents(CompleteLines(<<>>, decoded))),
               <<>>, NewRemainder(<<>>, decoded), 0)

\* C13: however the bytes of a pipe are split into reads, when the loop has
\* ended the lines emitted for that pipe (output events and payload lines for
\* stdout, error events for stderr, the flushed fragment included) are those
\* of a single read of the whole (as claimed; refuted by a read that ends
\* inside a multi-byte character).
C13_ChunkInvariance ==
    pc = "assemble" =>
        /\ EventTexts(produced, "output")
              = EventTexts(OneReadStdout(Written("out")).events, "output")
        /\ yaml_buffer = OneReadStdout(Written("out")).yaml_buffer
        /\ EventTexts(produced, "error")
              = EventTexts(OneReadStderr(Written("err")).events, "error")

\* the text of s up to the start of the line that holds position i
BeforeLineOf(s, i) ==
    LET ends == {j \in 1..(i - 1) : s[j] \in LineBreaks} IN
    IF ends = {} THEN <<>>
    ELSE SubSeq(s, 1, CHOOSE j \in ends : \A m \in ends : m <= j)

\* C14: when stdout held the marker, however the reads split it, at the end
\* of the loop payload mode is on, the payload buffer holds the text after
\* the marker exactly once, and the output events hold exactly the lines
\* before the marker line (as claimed; refuted by a marker line that is the
\* unterminated last line of stdout).
C14_MarkerSplitSafe ==
    (pc = "assemble" /\ HasMarker(Written("out"))) =>
        /\ yaml_started
        /\ yaml_buffer = AfterMarker(Written("out"))
        /\ Concat(EventTexts(produced, "output"))
              = BeforeLineOf(Written("out"), MarkerAt(Written("out")))

\* the digits of lowercase hexadecimal
LowerHexDigits ==
    {"0", "1", "2", "3", "4", "5", "6", "7", "8", "9", "a", "b", "c", "d", "e", "f"}

\* the text whose bytes a string of hexadecimal digit pairs spells
unhex(h) ==
    [i \in 1..(Len(h) \div 2) |->
        (CHOOSE row \in HexTable : row[2] = <<h[2 * i - 1], h[2 * i]>>)[1]]

\* the request got as far as building its argv
Launched == launch \in {"pending", "spawned", "spawn_failed"}

\* C15: the argv of a launched request is the interpreter, the temp file,
\* the white-space separated tokens of the user arguments and, only for a
\* script that accepts a reference, the literal --reference followed by
\* lowercase hexadecimal digits that spell the JSON text of the payload
\* cached when the request arrived, or {} when nothing was cached.
C15_Argv ==
    Launched =>
        LET s == get_script_by_name(req.name)[1]
            n == Len(cmd)
            last == IF s.accepts_reference THEN n - 2 ELSE n
            tokens == SubSeq(cmd, 3, last)
        IN  /\ last >= 2
            /\ cmd[1] = IF is_python(s) THEN <<"/usr/bin/python3">> ELSE <<"/bin/bash">>
            /\ cmd[2] = script_path
            /\ \A i \in 1..Len(tokens) : tokens[i] # <<>> /\ FirstIn(tokens[i], {SPACE}) = 0
            /\ JoinLines(tokens) = (IF req.args = None THEN <<>> ELSE req.args)
            /\ s.accepts_reference =>
                  /\ cmd[n - 1] = <<"--reference">>
                  /\ Len(cmd[n]) % 2 = 0
                  /\ \A i \in 1..Len(cmd[n]) : cmd[n][i] \in LowerHexDigits
                  /\ unhex(cmd[n]) = json_dumps(IF cache0 = <<>> THEN EmptyObject
                                                ELSE cache0[1].json_result)

\* C15 witness: a script that accepts a reference is launched with two user
\* tokens while a payload of an earlier execution is cached.
C15_Witness ==
    /\ Launched
    /\ get_script_by_name(req.name)[1].accepts_reference
    /\ cache0 # <<>>
    /\ cache0[1].json_result # <<>>
    /\ Len(cmd) = 6

\* C16: of two requests in progress at once neither touches what belongs to
\* the other: each one's temp script file exists from its launch until its
\* own read loop has ended, and the process of the first runs the script, as
\* it does when the request runs alone (as claimed; refuted for two requests
\* of one script name, which share one file path).
C16_Isolation ==
    /\ (pc = "spawn" \/ InLoop) => script_path \in files
    /\ peer.pc \in {"spawn", "loop"} => peer.script_path \in files
    /\ process.state # "none" => process.prog \in Programs

\* the positions in hist of the executions that yielded a valid payload
ValidRuns == {k \in 1..Len(hist) : hist[k].valid}

\* C17: when two requests in progress at once have both yielded a valid
\* payload, the cache holds the script name, output text, parsed payload and
\* argument string of the one that finalized last, all four from that one.
C17_LastWriteWins ==
    Cardinality(ValidRuns) >= 2 =>
        LET r == hist[CHOOSE k \in ValidRuns : \A j \in ValidRuns : j <= k].result IN
        exec_env = <<[type |-> "json", command |-> r[1], text_result |-> r[2],
                      json_result |-> r[3], args |-> r[4]]>>

\* C17 witness: the second request was launched while the first was in
\* progress, both yielded a valid payload, and the second finalized last.
C17_Witness ==
    /\ peer.concurrent
    /\ peer.pc = "done"
    /\ Cardinality(ValidRuns) = 2
    /\ hist[Len(hist)].result[2] = peer.text_buffer
    /\ hist[Len(hist) - 1].result[2] = text_buffer
    /\ text_buffer # peer.text_buffer

\* the read loop has reported an exception of its own
ReadLoopFailed ==
    \E i \in 1..Len(produced) : produced[i] = Event("error", DecodeErrorMessage)

\* the delivery loop has reported an exception of its own
DeliveryFailed == \E i \in 1..Len(delivered) : delivered[i] = GenErrorFrame

\* C18: when a request has ended with the consumer still connected and its
\* read loop or its delivery loop had raised an unexpected exception, an
\* error frame for it has been delivered and the last frame is done (as
\* claimed; refuted by an exception in the disconnect poll of the delivery
\* loop, after which no done frame is yielded).
C18_FailureReported ==
    (pc = "closed" /\ ~disconnected /\ (ReadLoopFailed \/ DeliveryFailed)) =>
        /\ ReadLoopFailed =>
              \E i \in 1..Len(delivered) :
                  delivered[i] = Frame(Event("error", DecodeErrorMessage))
        /\ delivered # <<>>
        /\ delivered[Len(delivered)] = DoneFrame

\* everything the response body holds: the yielded frames one after another
Wire == Concat([i \in 1..Len(delivered) |-> sse(delivered[i])])

\* the frames a client reads from a body: it cuts at every blank line and
\* takes the kind from the first line of a piece and the text from the second
RECURSIVE SplitFrames(_)
SplitFrames(w) ==
    LET cuts == {i \in 1..(Len(w) - 1) : w[i] = NL /\ w[i + 1] = NL} IN
    IF cuts = {} THEN (IF w = <<>> THEN <<>> ELSE <<[event |-> "", data |-> w]>>)
    ELSE LET c == CHOOSE i \in cuts : \A j \in cuts : i <= j
             piece == SubSeq(w, 1, c - 1)
         IN  <<IF Len(piece) >= 4 /\ piece[1] = "event: " /\ piece[3] = NL
                  /\ piece[4] = "data: "
               THEN [event |-> piece[2], data |-> Tail2(piece, 4)]
               ELSE [event |-> "", data |-> piece]>>
             \o SplitFrames(Tail2(w, c + 1))

\* text with every pair backslash, n turned back into a newline
RECURSIVE unescape(_)
unescape(data) ==
    IF data = <<>> THEN <<>>
    ELSE IF Len(data) >= 2 /\ data[1] = "\\" /\ data[2] = "n"
    THEN <<NL>> \o unescape(Tail2(data, 2))
    ELSE <<data[1]>> \o unescape(Tail(data))

\* C19: every delivered frame has a kind among output, error and done and
\* a text without a newline; the text of an output or error frame is the
\* text of its event with each newline replaced by backslash, n; and cutting
\* the response body at its blank lines gives back exactly the frames.
C19_FrameRendering ==
    /\ \A i \in 1..Len(delivered) :
          /\ delivered[i].event \in {"output", "error", "done"}
          /\ \A j \in 1..Len(delivered[i].data) : delivered[i].data[j] # NL
          /\ delivered[i].event # "done" =>
                /\ i <= Len(produced)
                /\ delivered[i].event = produced[i][1]
                /\ Len(delivered[i].data) >= Len(produced[i][2])
                /\ unescape(delivered[i].data) = produced[i][2]
    /\ SplitFrames(Wire) = delivered

\* C19 witness: a finished stream with at least three frames, one of them for
\* an event whose text ends with a newline.
C19_Witness ==
    /\ pc = "closed"
    /\ Len(delivered) >= 3
    /\ \E i \in 1..Len(delivered) :
          /\ delivered[i].event = "output"
          /\ EndsWithNL(produced[i][2])
          /\ Len(delivered[i].data) = Len(produced[i][2]) + 1

\* C20: no two rows of the catalog have one name, every name that was saved
\* has exactly one row, and the last save was answered with success and its
\* row holds the description, body, category and accepts_reference flag of
\* that save, whether or not the name existed before.
C20_Upsert ==
    /\ \A r1, r2 \in scripts : r1.name = r2.name => r1 = r2
    /\ \A n \in saved : Cardinality({r \in scripts : r.name = strip(n)}) = 1
    /\ save_response # NoResponse =>
          /\ save_response.status = 200
          /\ \E r \in scripts :
                /\ r.name = strip(save_response.script.name)
                /\ r.description = save_response.script.description
                /\ r.body = save_response.script.body
                /\ r.category = save_response.script.category
                /\ r.accepts_reference =
                       adapt_bool(save_response.script.accepts_reference)

\* C20 witness: a save of a name that existed with other contents has been
\* answered while the catalog holds two scripts.
C20_Witness ==
    /\ save_response # NoResponse
    /\ save_response.replaced
    /\ Cardinality(scripts) = 2

\* C21: a lookup of a name that has no row in the catalog (never saved,
\* renamed away or deleted) is answered 404, and a lookup of a name that has
\* a row is answered 200 with that row and its description.
C21_LookupAnswers ==
    (catalog_response # NoResponse /\ catalog_response.endpoint = "get_script") =>
        IF catalog_response.script = <<>>
        THEN catalog_response.status = 404
        ELSE /\ catalog_response.status = 200
             /\ catalog_response.script[1].name = strip(catalog_response.name)
             /\ catalog_response.script[1].description \in {"d1", "d2"}

\* C23: a rename of an existing script to another name that is answered with
\* success leaves no row under the old name and leaves under the new name the
\* row of the same id with exactly the description, body and category of the
\* request.
C23_Rename ==
    [][\A p \in RenamePayloads :
          LET before == select_script(scripts, p.old_name)
              after == select_script(scripts', p.new_name)
          IN  (/\ RenameScript(p)
               /\ catalog_response'.status = 200
               /\ before # <<>>
               /\ strip(p.old_name) # strip(p.new_name))
              => /\ select_script(scripts', p.old_name) = <<>>
                 /\ after # <<>>
                 /\ after[1].id = before[1].id
                 /\ after[1].description = p.description
                 /\ after[1].body = p.body
                 /\ after[1].category = p.category]_vars

\* C24: a delete of an existing script that is answered with success leaves
\* no row a lookup by that name finds and no entry of that name in the
\* listing.
C24_Delete ==
    [][\A name \in PathNames :
          (/\ DeleteScript(name)
           /\ catalog_response'.status = 200
           /\ select_script(scripts, name) # <<>>)
          => /\ select_script(scripts', name) = <<>>
             /\ \A e \in get_all_scripts(scripts') : e.name # strip(name)]_vars

\* C24 witness: the delete of an existing script has been answered with
\* success, the name is gone and another script is still listed.
C24_Witness ==
    /\ catalog_response # NoResponse
    /\ catalog_response.endpoint = "delete_script"
    /\ catalog_response.status = 200
    /\ catalog_response.existed
    /\ select_script(scripts, catalog_response.name) = <<>>
    /\ get_all_scripts(scripts) # {}

\* C22: the history the get_script_args endpoint returns for a script has at
\* most 10 entries, is empty when no usage was recorded for the script, and
\* otherwise starts with the argument string of the latest recorded usage.
C22_History ==
    [][\A name \in HistoryNames :
          GetScriptArgs(name) =>
              LET usage == {u \in recorded : u[1] = name}
                  history == args_response'.args
              IN  /\ Len(history) <= HistoryLimit
                  /\ usage = {} => history = <<>>
                  /\ usage # {} =>
                        /\ history # <<>>
                        /\ \E u \in usage : history[1] = u[2]]_vars

\* the stdout bytes the read loop has taken from the pipe so far
ConsumedOut ==
    SubSeq(Written("out"), 1, Len(Written("out")) - Len(stdout_pipe))

\* index of the first of lines that contains the marker, 0 when none does
MarkerLine(lines) ==
    LET hits == {i \in 1..Len(lines) : HasMarker(lines[i])} IN
    IF hits = {} THEN 0 ELSE CHOOSE i \in hits : \A j \in hits : i <= j

\* C25: while the read loop runs, with the terminated lines of the stdout
\* text read so far taken in order: payload mode is on exactly when one of
\* them contained the marker (so it is off at the start and never goes off
\* again), the output events are exactly the lines before the first marker
\* line, one event each, and the payload buffer is the text after the marker
\* on that line followed by every later line unchanged, a later line with a
\* marker included.
C25_Routing ==
    InLoop =>
        LET lines == CompleteLines(<<>>, decode(ConsumedOut))
            m == MarkerLine(lines)
        IN  /\ yaml_started = (m # 0)
            /\ EventTexts(produced, "output")
                  = (IF m = 0 THEN lines ELSE SubSeq(lines, 1, m - 1))
            /\ m # 0 =>
                  yaml_buffer = AfterMarker(lines[m])
                                   \o Concat(SubSeq(lines, m + 1, Len(lines)))

\* C25 witness: the loop is in payload mode after an output event, and a
\* second marker line has gone to the payload buffer.
C25_Witness ==
    /\ InLoop
    /\ yaml_started
    /\ EventTexts(produced, "output") # <<>>
    /\ HasMarker(yaml_buffer)

\* the read loop has ended at the end of input of both pipes
LoopCompleted ==
    /\ pc = "assemble"
    /\ ~ReadLoopFailed
    /\ stdout_pipe = <<>>
    /\ stderr_pipe = <<>>
    /\ ~disconnected

\* C26: when the read loop has ended at the end of input and a terminated
\* stdout line held the marker, the payload text the task returns is the text
\* after the first marker on the first such line, then every later stdout
\* line in order, then the unterminated last fragment if there is one; the
\* output events are exactly the lines before the marker line, so the text
\* before the marker on that line is in no event and not in the payload.
C26_PayloadText ==
    LoopCompleted =>
        LET text == decode(Written("out"))
            lines == CompleteLines(<<>>, text)
            fragment == NewRemainder(<<>>, text)
            m == MarkerLine(lines)
        IN  m # 0 =>
               /\ yaml_result
                     = Tail2(lines[m], MarkerAt(lines[m]) + Len(Marker) - 1)
                          \o Concat(SubSeq(lines, m + 1, Len(lines)))
                          \o fragment
               /\ EventTexts(produced, "output") = SubSeq(lines, 1, m - 1)

\* C26 witness: the loop has ended on a stdout whose marker line had text
\* before the marker and whose last line was unterminated; the payload text
\* is the line break after the marker and that fragment.
C26_Witness ==
    /\ LoopCompleted
    /\ MarkerAt(Written("out")) > 1
    /\ NewRemainder(<<>>, decode(Written("out"))) = <<"k">>
    /\ yaml_result = <<NL, "k">>
    /\ EventTexts(produced, "output") = <<>>

\* the stderr bytes the read loop has taken from the pipe so far
ConsumedErr ==
    SubSeq(Written("err"), 1, Len(Written("err")) - Len(stderr_pipe))

\* the texts of the error events of the execution, program messages left out
ErrorTexts ==
    LET IsLine(t) == t \notin Messages IN
    SelectSeq(EventTexts(produced, "error"), IsLine)

\* C27: while the read loop runs the error events are exactly the terminated
\* lines of the stderr text read so far, a line with the marker included,
\* and payload mode, the payload buffer and the output text are what the
\* stdout text read so far yields by itself, whatever stderr held; when the
\* loop has ended at the end of input the error events are exactly the lines
\* of stderr, the unterminated last one included.
C27_Stderr ==
    /\ InLoop =>
          LET d == RouteLines(Demux(FALSE, <<>>, <<>>, <<>>),
                              CompleteLines(<<>>, decode(ConsumedOut)))
          IN  /\ ErrorTexts = CompleteLines(<<>>, decode(ConsumedErr))
              /\ yaml_started = d.yaml_started
              /\ yaml_buffer = d.yaml_buffer
              /\ text_buffer = d.text_buffer
    /\ LoopCompleted =>
          /\ ErrorTexts = splitlines(decode(Written("err")))
          /\ yaml_started = OneReadStdout(Written("out")).yaml_started
          /\ yaml_buffer = OneReadStdout(Written("out")).yaml_buffer
          /\ text_buffer = OneReadStdout(Written("out")).text_buffer

\* C27 witness: the loop has ended in payload mode with stderr lines emitted
\* as error events, one of them holding the marker, and the payload buffer
\* and the output text hold stdout text only.
C27_Witness ==
    /\ LoopCompleted
    /\ yaml_started
    /\ yaml_buffer = <<NL, "k", NL>>
    /\ text_buffer = <<"a", NL>>
    /\ ErrorTexts = << <<"e", NL>>, Marker \o <<NL>> >>

\* a step that leaves the read loop because the consumer has gone
CancelStep ==
    \/ PollDisconnected
    \/ \E raises \in BOOLEAN : PollDisconnectedExited(raises)

\* the one-element sequence of a non-empty fragment, else the empty sequence
Flushed(fragment) == IF fragment = <<>> THEN <<>> ELSE <<fragment>>

\* C28: when the loop has ended at the end of input of both pipes, the
\* unterminated last fragment of stdout has gone, once, to the payload buffer
\* in payload mode and else into one last output event, the unterminated last
\* fragment of stderr into one last error event, and no event has an empty
\* text; a step that leaves the loop because the consumer has gone adds
\* nothing to the payload buffer, to the output text or to the output and
\* error events; and nothing is flushed after the loop has been left.
C28_Flush ==
    /\ [](LoopCompleted =>
            LET out == decode(Written("out"))
                err == decode(Written("err"))
                d == RouteLines(Demux(FALSE, <<>>, <<>>, <<>>),
                                CompleteLines(<<>>, out))
                out_fragment == NewRemainder(<<>>, out)
                err_fragment == NewRemainder(<<>>, err)
            IN  /\ yaml_started = d.yaml_started
                /\ EventTexts(produced, "output")
                      = EventTexts(d.events, "output")
                           \o (IF yaml_started THEN <<>> ELSE Flushed(out_fragment))
                /\ yaml_buffer
                      = d.yaml_buffer
                           \o (IF yaml_started THEN out_fragment ELSE <<>>)
                /\ ErrorTexts = CompleteLines(<<>>, err) \o Flushed(err_fragment)
                /\ \A i \in 1..Len(produced) : produced[i][2] # <<>>)
    /\ [][CancelStep =>
             /\ yaml_buffer' = yaml_buffer
             /\ text_buffer' = text_buffer
             /\ EventTexts(produced', "output") = EventTexts(produced, "output")
             /\ ErrorTexts' = ErrorTexts]_vars
    /\ [][(pc = "assemble" /\ pc' = "assemble") =>
             /\ produced' = produced
             /\ yaml_buffer' = yaml_buffer]_vars

\* C28 witness: the consumer has gone while the script was running, the loop
\* has been left in payload mode, and the unterminated fragments of stdout
\* and stderr are in no event and not in the payload buffer.
C28_Witness ==
    /\ pc = "assemble"
    /\ process.signals # <<>>
    /\ yaml_started
    /\ stdout_remainder = <<"k">>
    /\ stderr_remainder = <<"e">>
    /\ yaml_buffer = <<NL>>
    /\ ErrorTexts = <<>>

\* the registry holds the handle of the command execute_fs_command waits for
\* and nothing else
FsTracked ==
    /\ fs_pc = "communicate" => DOMAIN running_processes = {command_id}
    /\ fs_pc = "idle" => DOMAIN running_processes = {}

\* C29: the registry holds the handle of the process of every execution from
\* its spawn until the execution is finalized or cancelled, and no entry
\* otherwise: for a script execution while its read loop runs, for a command
\* of execute_fs_command while the handler waits for it (as claimed; refuted
\* by every script execution, whose process is never stored).
C29_Tracked ==
    /\ (launch = "spawned" /\ InLoop) =>
          \E id \in DOMAIN running_processes : running_processes[id] = process
    /\ FsTracked

\* C30: whenever a tracked execution is still running, a cancel request for
\* its id can be handled at that moment, finding the id in the registry (as
\* claimed; refuted by the handler of the execution, which blocks the event
\* loop for as long as the id is registered).
C30_CancelWhileTracked ==
    \A id \in DOMAIN running_processes :
        running_processes[id].state = "running" =>
            ENABLED CancelCommand(id, FALSE)

\* C33: a rename whose new name is the name of a different script is answered
\* 400 and leaves every row of the catalog as it was, and at no time do two
\* rows of the catalog have one name.
C33_RenameRefused ==
    /\ [][\A p \in RenamePayloads :
             LET old_row == select_script(scripts, p.old_name)
                 new_row == select_script(scripts, p.new_name)
             IN  (/\ RenameScript(p)
                  /\ new_row # <<>>
                  /\ old_row # new_row)
                 => /\ catalog_response'.status = 400
                    /\ scripts' = scripts]_vars
    /\ [](\A r1, r2 \in scripts : r1.name = r2.name => r1 = r2)

\* C33 witness: a rename of an existing script to the name of the other
\* existing script has been answered 400 and both rows are still there.
C33_Witness ==
    /\ catalog_response # NoResponse
    /\ catalog_response.endpoint = "rename_script"
    /\ catalog_response.status = 400
    /\ catalog_response.payload.old_name = <<"a">>
    /\ catalog_response.payload.new_name = <<"b">>
    /\ select_script(scripts, <<"a">>) # <<>>
    /\ select_script(scripts, <<"b">>) # <<>>

\* C34: a delete of a name that has no row in the catalog is answered 404,
\* and a delete is answered with success only when a row was removed (as
\* claimed; refuted by the delete of any unknown name, answered with success).
C34_DeleteUnknown ==
    (catalog_response # NoResponse /\ catalog_response.endpoint = "delete_script") =>
        IF catalog_response.existed
        THEN catalog_response.status = 200
        ELSE catalog_response.status = 404

\* C35: no output event carries text that contains the marker, whatever the
\* reads were and whether or not the line with the marker was terminated (as
\* claimed; refuted by a marker on the unterminated last line of stdout).
C35_NoMarkerInOutput ==
    \A i \in 1..Len(produced) :
        produced[i][1] = "output" => ~HasMarker(produced[i][2])

\* the body once its leading white space is skipped
AfterLeadingBlank(body) == lstrip(body)

\* the file and the command of a script run by the interpreter, and of one
\* run by the shell
RunByInterpreter ==
    /\ written.cmd[1] = <<"/usr/bin/python3">>
    /\ written.cmd[2] = written.file.path
    /\ written.file.content = written.body
    /\ endswith(written.file.path, PyExt)

RunByShell ==
    /\ written.cmd[1] = <<"/bin/bash">>
    /\ written.cmd[2] = written.file.path
    /\ written.file.content = BashShebang \o written.body
    /\ endswith(written.file.path, ShExt)

TextAfter(text, m) == \E i \in (Len(m) + 1)..Len(text) : text[i] \notin WhiteSpace

LatestPayload(h) ==
    LET valid == {k \in 1..Len(h) : h[k].valid} IN
    IF valid = {} THEN EmptyObject
    ELSE h[CHOOSE k \in valid : \A j \in valid : j <= k].result[3]

\* C31: the words after --reference in the argv of a script that accepts a
\* reference spell the payload of the execution that was the last to finalize
\* with a valid payload before the launch, whichever script it ran, and no
\* step taken after the launch, a finalization least of all, changes the argv.
C31_InjectedAtLaunch ==
    /\ [][\A r \in Requests :
             (RequestLaunch(r) /\ get_script_by_name(r.name)[1].accepts_reference)
                 => unhex(cmd'[Len(cmd')]) = json_dumps(LatestPayload(hist))]_vars
    /\ [][(Launched /\ runs' = runs) => cmd' = cmd]_vars

\* C31 witness: a script that accepts a reference has been launched with the
\* payload another script's execution had finalized, and is still running.
C31_Witness ==
    /\ launch = "spawned"
    /\ InLoop
    /\ get_script_by_name(req.name)[1].accepts_reference
    /\ ValidRuns # {}
    /\ hist[Len(hist)].result[1] # req.name
    /\ unhex(cmd[Len(cmd)]) = json_dumps(hist[Len(hist)].result[3])
    /\ unhex(cmd[Len(cmd)]) # json_dumps(EmptyObject)

\* the loop awaits a read that cannot return: the pipe is empty and its
\* writer has not exited
ReadBlocked ==
    /\ process.state = "running"
    /\ \/ pc = "read_out" /\ stdout_pipe = <<>>
       \/ pc = "read_err" /\ stderr_pipe = <<>>

\* the script is in a write for which its pipe has no room
WriteBlocked ==
    /\ process.state = "running"
    /\ process.wpos < Len(process.prog.writes)
    /\ ~ENABLED ProcWrite

\* C36: the read loop is never blocked in the read of one pipe while the
\* script is blocked in a write to the other (as claimed; refuted by a script
\* that writes more to one stream than its pipe holds and nothing to the other).
C36_NoDeadlock == ~(ReadBlocked /\ WriteBlocked)

\* the read loop has ended in its except clause
ReadLoopRaised ==
    \E i \in 1..Len(produced) :
        produced[i] \in {Event("error", DecodeErrorMessage),
                         Event("error", LookupErrorMessage)}

\* the read loop has ended in its disconnect branch with the script running
EndedByDisconnect == process.signalled

\* C37: the finalization of an execution whose read loop ended in the
\* disconnect branch or in an exception leaves the cache as it was (as
\* claimed; refuted by a consumer that goes away after the marker was read).
C37_NoReplace ==
    [][(Assemble /\ (EndedByDisconnect \/ ReadLoopRaised)) => exec_env' = exec_env]_vars

\* C39: once the request has been answered to its end, with the final frame
\* or with an HTTP error, the process spawned for it has exited (as claimed;
\* refuted by a read that fails to decode and by the disconnect branch, which
\* both leave the loop while the script runs on).
C39_ProcessGone ==
    (pc = "closed" /\ process.state # "none") => process.state = "exited"

DoneSent == pc = "closed" /\ response = "stream" /\ DoneCount(delivered) = 1

\* the execution that was the last to finalize yielded a valid payload
LastYieldValid == hist # <<>> /\ hist[Len(hist)].valid

\* the output text an execution has accumulated: the text of its output
\* events, in their order
OutputText == Concat(EventTexts(produced, "output"))

\* C40: when the final frame of an execution that yielded a valid payload has
\* been sent, the cache already holds that execution's result, and a
\* get_last_result answered then returns the output text it accumulated.
C40_CacheBeforeDone ==
    /\ []((DoneSent /\ LastYieldValid) =>
             (exec_env # <<>> /\ exec_env[1].text_result = OutputText))
    /\ [][(GetLastResult /\ DoneSent /\ LastYieldValid)
             => catalog_response'.text = OutputText]_vars

\* C40 witness: after the final frame of an execution with output text and a
\* valid payload, a get_last_result has been answered with that text.
C40_Witness ==
    /\ DoneSent
    /\ LastYieldValid
    /\ OutputText # <<>>
    /\ catalog_response # NoResponse
    /\ catalog_response.endpoint = "get_last_result"
    /\ catalog_response.text = OutputText

====
